---------------------------- MODULE Spec2Model ----------------------------
(***************************************************************************)
(* A model of loxide, a tree-walking interpreter for Lox: the scanner, the *)
(* recursive-descent parser, the resolver, the interpreter with its        *)
(* environments, closures, classes and instances, and the driver           *)
(* (Loxide::run / run_file) that chains them.                              *)
(*                                                                         *)
(* A source buffer is a sequence of characters, each character a string.   *)
(* An ASCII character is the one-character string; a character outside    *)
(* ASCII is written by its code point ("U+00E9").  Lexemes, names and      *)
(* string values are sequences of characters.  Option<T> is a sequence of  *)
(* length 0 (None) or 1 (Some).                                            *)
(***************************************************************************)
EXTENDS Integers, Sequences, FiniteSets, TLC

VARIABLES
    input,          \* which program of the corpus is run
    source,         \* the contents of the file
    now,            \* the reading of the system clock
    pc,             \* where Loxide::run / run_file stands
    scanner,        \* the Scanner
    tokens,         \* the tokens collected from it
    static_error,   \* Loxide.static_error
    runtime_error,  \* Loxide.runtime_error
    stderr,         \* the diagnostics written to standard error
    stdout,         \* the lines written to standard output
    ast,            \* the statements the parser returned
    interp,         \* the Interpreter, once constructed
    next_stmt,      \* the position of interpret's loop in the statements
    panicked,       \* the process panicked
    exit_code,      \* the exit status of the process, once it has ended
    parse_result,   \* what syntax/parser.rs's parse returned
    polls           \* the calls of Scanner::next made after it returned None

vars == <<input, source, now, pc, scanner, tokens, static_error, runtime_error,
          stderr, stdout, ast, interp, next_stmt, panicked, exit_code,
          parse_result, polls>>

-----------------------------------------------------------------------------
(* Characters                                                              *)

Digit == {"0", "1", "2", "3", "4", "5", "6", "7", "8", "9"}

Alpha == {"a", "b", "c", "d", "e", "f", "g", "h", "i", "j", "k", "l", "m",
          "n", "o", "p", "q", "r", "s", "t", "u", "v", "w", "x", "y", "z",
          "A", "B", "C", "D", "E", "F", "G", "H", "I", "J", "K", "L", "M",
          "N", "O", "P", "Q", "R", "S", "T", "U", "V", "W", "X", "Y", "Z"}

is_ascii_digit(ch) == ch \in Digit

is_ascii_alphabetic(ch) == ch \in Alpha

is_ascii_alphanumeric(ch) == ch \in Alpha \cup Digit

\* char::len_utf8: the characters outside ASCII that the inputs use.
len_utf8(ch) ==
    CASE ch = "U+00E9" -> 2
      [] ch = "U+20AC" -> 3
      [] OTHER -> 1

-----------------------------------------------------------------------------
(* Spans                                                                   *)

Span_new == [offset |-> 0, len |-> 0]

\* A span that starts where the old one started.
Span_after_same_start(old) == [offset |-> old.offset, len |-> old.len]

Span_after(old) == [offset |-> old.offset + old.len, len |-> 0]

Span_grow(span, n) == [span EXCEPT !.len = @ + n]

Span_end(span) == span.offset + span.len

\* The byte offset at which each character of src starts, and the byte
\* length of src as the last element.
ByteOffsets(src) ==
    LET two == {j \in 1..Len(src) : len_utf8(src[j]) = 2}
        three == {j \in 1..Len(src) : len_utf8(src[j]) = 3}
    IN  [i \in 1..(Len(src) + 1) |->
            (i - 1) + Cardinality({j \in two : j < i})
                    + 2 * Cardinality({j \in three : j < i})]

\* &source[span.range()]: the characters lying in the byte range of span.
Slice(src, span) ==
    LET offs == ByteOffsets(src)
        idx  == {i \in 1..Len(src) :
                    offs[i] >= span.offset /\ offs[i] < Span_end(span)}
    IN  IF idx = {} THEN <<>>
        ELSE LET lo == CHOOSE i \in idx : \A j \in idx : i <= j
                 hi == CHOOSE i \in idx : \A j \in idx : i >= j
             IN  SubSeq(src, lo, hi)

-----------------------------------------------------------------------------
(* Scanner (syntax/tokenizer.rs; tokenizer.rs keeps `errors` where the     *)
(* newer file keeps `had_error`, the scanning itself is the same)          *)

\* Scanner::new.  `chars` is the number of characters the iterator has
\* yielded so far.
Scanner_new ==
    [chars |-> 0, span |-> Span_new, finished |-> FALSE,
     had_error |-> FALSE, errors |-> <<>>]

Scanner_error(sc, err) ==
    [sc EXCEPT !.had_error = TRUE,
               !.errors = Append(@, [value |-> err, span |-> sc.span])]

chars_peek(src, sc) ==
    IF sc.chars < Len(src) THEN <<src[sc.chars + 1]>> ELSE <<>>

peek_next(src, sc) ==
    IF sc.chars + 1 < Len(src) THEN <<src[sc.chars + 2]>> ELSE <<>>

\* A consume_char that counts every character as one byte.
consume_char_one_byte(src, sc) ==
    IF sc.chars < Len(src)
    THEN [sc |-> [sc EXCEPT !.chars = @ + 1, !.span = Span_grow(@, 1)],
          ch |-> <<src[sc.chars + 1]>>]
    ELSE [sc |-> sc, ch |-> <<>>]

consume_char(src, sc) ==
    IF sc.chars < Len(src)
    THEN [sc |-> [sc EXCEPT !.chars = @ + 1,
                            !.span = Span_grow(@, len_utf8(src[sc.chars + 1]))],
          ch |-> <<src[sc.chars + 1]>>]
    ELSE [sc |-> sc, ch |-> <<>>]

\* The predicates handed to consume_while.
Pred(p, ch) ==
    CASE p = "not_newline" -> ch # "\n"
      [] p = "not_quote"   -> ch # "\""
      [] p = "digit"       -> is_ascii_digit(ch)
      [] p = "ident"       -> is_ascii_alphanumeric(ch) \/ ch = "_"

\* The scanner after each consume_char is bound by a set constructor, so
\* that it is computed once wherever the loop is evaluated.
RECURSIVE consume_while(_, _, _)
consume_while(src, sc, p) ==
    IF chars_peek(src, sc) # <<>> /\ Pred(p, chars_peek(src, sc)[1])
    THEN CHOOSE r \in {consume_while(src, s, p) :
                            s \in {consume_char(src, sc).sc}} : TRUE
    ELSE sc

consume_if_eq(src, sc, to_match) ==
    IF chars_peek(src, sc) = <<to_match>>
    THEN consume_char(src, sc)
    ELSE [sc |-> sc, ch |-> <<>>]

branch(src, sc, to_match, success, failure) ==
    LET c == consume_if_eq(src, sc, to_match)
    IN  [sc |-> c.sc, tt |-> IF c.ch # <<>> THEN <<success>> ELSE <<failure>>]

Scanner_comment(src, sc) ==
    LET c == consume_if_eq(src, sc, "/")
    IN  IF c.ch # <<>>
        THEN [sc |-> consume_while(src, c.sc, "not_newline"), ok |-> TRUE]
        ELSE [sc |-> sc, ok |-> FALSE]

\* A string that takes the end of the source for its closing quote.
Scanner_string_lenient(src, sc) ==
    [sc |-> consume_char(src, consume_while(src, sc, "not_quote")).sc,
     ok |-> TRUE]

Scanner_string(src, sc) ==
    LET c == consume_char(src, consume_while(src, sc, "not_quote"))
    IN  IF c.ch = <<"\"">>
        THEN [sc |-> c.sc, ok |-> TRUE]
        ELSE [sc |-> Scanner_error(c.sc, "UnterminatedString"), ok |-> FALSE]

Scanner_number(src, sc) ==
    LET s1 == consume_while(src, sc, "digit")
    IN  IF /\ chars_peek(src, s1) = <<".">>
           /\ peek_next(src, s1) # <<>>
           /\ is_ascii_digit(peek_next(src, s1)[1])
        THEN consume_while(src, consume_char(src, s1).sc, "digit")
        ELSE s1

Scanner_identifier(src, sc) == consume_while(src, sc, "ident")

Keywords ==
    [k \in {<<"a","n","d">>, <<"c","l","a","s","s">>, <<"e","l","s","e">>,
            <<"f","a","l","s","e">>, <<"f","o","r">>, <<"f","u","n">>,
            <<"i","f">>, <<"n","i","l">>, <<"o","r">>,
            <<"p","r","i","n","t">>, <<"r","e","t","u","r","n">>,
            <<"s","u","p","e","r">>, <<"t","h","i","s">>,
            <<"t","r","u","e">>, <<"v","a","r">>,
            <<"w","h","i","l","e">>} |->
        CASE k = <<"a","n","d">> -> "And"
          [] k = <<"c","l","a","s","s">> -> "Class"
          [] k = <<"e","l","s","e">> -> "Else"
          [] k = <<"f","a","l","s","e">> -> "False"
          [] k = <<"f","o","r">> -> "For"
          [] k = <<"f","u","n">> -> "Fun"
          [] k = <<"i","f">> -> "If"
          [] k = <<"n","i","l">> -> "Nil"
          [] k = <<"o","r">> -> "Or"
          [] k = <<"p","r","i","n","t">> -> "Print"
          [] k = <<"r","e","t","u","r","n">> -> "Return"
          [] k = <<"s","u","p","e","r">> -> "Super"
          [] k = <<"t","h","i","s">> -> "This"
          [] k = <<"t","r","u","e">> -> "True"
          [] k = <<"v","a","r">> -> "Var"
          [] k = <<"w","h","i","l","e">> -> "While"]

ident_type(s) == IF s \in DOMAIN Keywords THEN Keywords[s] ELSE "Identifier"

SingleCharTokens ==
    [c \in {"(", ")", "{", "}", ",", ".", "-", "+", ";", "*"} |->
        CASE c = "(" -> "LeftParen"
          [] c = ")" -> "RightParen"
          [] c = "{" -> "LeftBrace"
          [] c = "}" -> "RightBrace"
          [] c = "," -> "Comma"
          [] c = "." -> "Dot"
          [] c = "-" -> "Minus"
          [] c = "+" -> "Plus"
          [] c = ";" -> "Semicolon"
          [] c = "*" -> "Star"]

\* The `match ch` of Scanner::next: the scanner after the arm, and the token
\* type it yields (none when the arm says `continue`).
MatchChar(src, sc, ch) ==
    CASE ch \in DOMAIN SingleCharTokens ->
            [sc |-> sc, tt |-> <<SingleCharTokens[ch]>>]
      [] ch = "!" -> branch(src, sc, "=", "BangEqual", "Bang")
      [] ch = "=" -> branch(src, sc, "=", "EqualEqual", "Equal")
      [] ch = "<" -> branch(src, sc, "=", "LessEqual", "Less")
      [] ch = ">" -> branch(src, sc, "=", "GreaterEqual", "Greater")
      [] ch \in {" ", "\n", "\r", "\t"} -> [sc |-> sc, tt |-> <<>>]
      [] ch = "/" ->
            LET c == Scanner_comment(src, sc)
            IN  [sc |-> c.sc, tt |-> IF c.ok THEN <<>> ELSE <<"Slash">>]
      [] ch = "\"" ->
            LET c == Scanner_string(src, sc)
            IN  [sc |-> c.sc, tt |-> IF c.ok THEN <<"String">> ELSE <<>>]
      [] is_ascii_digit(ch) ->
            [sc |-> Scanner_number(src, sc), tt |-> <<"Number">>]
      [] is_ascii_alphabetic(ch) ->
            LET s1 == Scanner_identifier(src, sc)
            IN  [sc |-> s1, tt |-> <<ident_type(Slice(src, s1.span))>>]
      [] OTHER ->
            [sc |-> Scanner_error(sc, "UnexpectedToken"), tt |-> <<>>]

\* The `loop` of Scanner::next.  c is what consume_char gave at the start
\* of a turn and m what the match gave; each is bound by a set constructor,
\* so that it is computed once wherever the loop is evaluated.
RECURSIVE ScanLoop(_, _)
ScanLoop(src, sc) ==
    CHOOSE out \in UNION {
        IF c.ch = <<>>
        THEN {[sc |-> [c.sc EXCEPT !.finished = TRUE],
               item |-> <<[token_type |-> "Eof", span |-> c.sc.span,
                           lexeme |-> <<>>]>>]}
        ELSE {IF m.tt = <<>>
              THEN ScanLoop(src, m.sc)
              ELSE [sc |-> m.sc,
                    item |-> <<[token_type |-> m.tt[1], span |-> m.sc.span,
                                lexeme |-> Slice(src, m.sc.span)]>>]
              : m \in {MatchChar(src, c.sc, c.ch[1])}}
        : c \in {consume_char(src, [sc EXCEPT !.span = Span_after(sc.span)])}
      } : TRUE

\* A next that does not look at `finished`.
Scanner_next_unfused(src, sc) == ScanLoop(src, sc)

\* Iterator::next for Scanner.
Scanner_next(src, sc) ==
    IF sc.finished THEN [sc |-> sc, item |-> <<>>] ELSE ScanLoop(src, sc)

\* scanner.by_ref().collect(): every token up to the first None.
RECURSIVE CollectFrom(_, _, _)
CollectFrom(src, sc, acc) ==
    LET r == Scanner_next(src, sc)
    IN  IF r.item = <<>> THEN [sc |-> r.sc, tokens |-> acc]
        ELSE CollectFrom(src, r.sc, Append(acc, r.item[1]))

ScanAll(src) == CollectFrom(src, Scanner_new, <<>>)

-----------------------------------------------------------------------------
(* Numbers.  An f64 is modelled by the exact rational num/den (den > 0,    *)
(* lowest terms); den = 0 stands for the non-finite values: 1/0 and -1/0   *)
(* are the infinities, 0/0 is NaN.  Rounding and the sign of zero are not  *)
(* modelled.                                                               *)

Abs(n) == IF n < 0 THEN -n ELSE n

Sign(n) == IF n < 0 THEN -1 ELSE IF n > 0 THEN 1 ELSE 0

RECURSIVE Gcd(_, _)
Gcd(a, b) == IF b = 0 THEN a ELSE Gcd(b, a % b)

Rat(n, d) ==
    IF d = 0 THEN [num |-> Sign(n), den |-> 0]
    ELSE LET g == Gcd(Abs(n), Abs(d))
         IN  [num |-> Sign(d) * (n \div g), den |-> Abs(d) \div g]

IsNaN(x) == x.den = 0 /\ x.num = 0

RatAdd(x, y) ==
    CASE IsNaN(x) \/ IsNaN(y) -> Rat(0, 0)
      [] x.den = 0 /\ y.den = 0 -> IF x.num = y.num THEN x ELSE Rat(0, 0)
      [] x.den = 0 -> x
      [] y.den = 0 -> y
      [] OTHER -> Rat(x.num * y.den + y.num * x.den, x.den * y.den)

RatNeg(x) == [num |-> -x.num, den |-> x.den]

RatSub(x, y) == RatAdd(x, RatNeg(y))

RatMul(x, y) ==
    CASE IsNaN(x) \/ IsNaN(y) -> Rat(0, 0)
      [] x.den = 0 \/ y.den = 0 -> Rat(Sign(x.num) * Sign(y.num), 0)
      [] OTHER -> Rat(x.num * y.num, x.den * y.den)

RatDiv(x, y) ==
    CASE IsNaN(x) \/ IsNaN(y) -> Rat(0, 0)
      [] x.den = 0 /\ y.den = 0 -> Rat(0, 0)
      [] x.den = 0 -> Rat(x.num * (IF y.num < 0 THEN -1 ELSE 1), 0)
      [] y.den = 0 -> Rat(0, 1)
      [] y.num = 0 -> Rat(x.num, 0)
      [] OTHER -> Rat(x.num * y.den * Sign(y.num), x.den * Abs(y.num))

\* f64 ==, < (false whenever an operand is NaN).
RatEq(x, y) == ~IsNaN(x) /\ ~IsNaN(y) /\ x = y

RatLt(x, y) ==
    CASE IsNaN(x) \/ IsNaN(y) -> FALSE
      [] x.den = 0 /\ y.den = 0 -> x.num < y.num
      [] x.den = 0 -> x.num < 0
      [] y.den = 0 -> y.num > 0
      [] OTHER -> x.num * y.den < y.num * x.den

DigitValue(ch) ==
    CASE ch = "0" -> 0 [] ch = "1" -> 1 [] ch = "2" -> 2 [] ch = "3" -> 3
      [] ch = "4" -> 4 [] ch = "5" -> 5 [] ch = "6" -> 6 [] ch = "7" -> 7
      [] ch = "8" -> 8 [] ch = "9" -> 9

DigitChar(d) == <<"0", "1", "2", "3", "4", "5", "6", "7", "8", "9">>[d + 1]

RECURSIVE Pow10(_)
Pow10(k) == IF k = 0 THEN 1 ELSE 10 * Pow10(k - 1)

RECURSIVE DigitsValue(_, _)
DigitsValue(s, acc) ==
    IF s = <<>> THEN acc
    ELSE DigitsValue(Tail(s), 10 * acc + DigitValue(Head(s)))

\* str::parse::<f64> on the lexeme of a Number token: digits, and
\* possibly a '.' and more digits.
ParseNumber(lexeme) ==
    LET dots == {i \in 1..Len(lexeme) : lexeme[i] = "."}
    IN  IF dots = {} THEN Rat(DigitsValue(lexeme, 0), 1)
        ELSE LET d == CHOOSE i \in dots : TRUE
                 frac == SubSeq(lexeme, d + 1, Len(lexeme))
             IN  Rat(DigitsValue(SubSeq(lexeme, 1, d - 1) \o frac, 0),
                     Pow10(Len(frac)))

RECURSIVE NatDigits(_)
NatDigits(n) ==
    IF n < 10 THEN <<DigitChar(n)>>
    ELSE NatDigits(n \div 10) \o <<DigitChar(n % 10)>>

RECURSIVE FracDigits(_, _, _)
FracDigits(r, d, fuel) ==
    IF r = 0 \/ fuel = 0 THEN <<>>
    ELSE <<DigitChar((10 * r) \div d)>> \o FracDigits((10 * r) % d, d, fuel - 1)

\* Display for f64, for the values whose decimal expansion ends within
\* FracDigitsShown digits (others are cut there: the host's shortest
\* round-trip form is not modelled).
FracDigitsShown == 17

NumDisplay(x) ==
    CASE IsNaN(x) -> <<"N", "a", "N">>
      [] x.den = 0 -> (IF x.num < 0 THEN <<"-">> ELSE <<>>) \o <<"i", "n", "f">>
      [] OTHER ->
            (IF x.num < 0 THEN <<"-">> ELSE <<>>)
            \o NatDigits(Abs(x.num) \div x.den)
            \o (IF x.den = 1 THEN <<>>
                ELSE <<".">> \o FracDigits(Abs(x.num) % x.den, x.den,
                                           FracDigitsShown))

-----------------------------------------------------------------------------
(* Values (interpreter/value.rs).  A function, class or instance value     *)
(* holds an Rc: it is modelled by the index of the shared object in the    *)
(* interpreter's heap.                                                     *)

NilVal == [tag |-> "Nil"]

BoolVal(b) == [tag |-> "Bool", b |-> b]

NumVal(x) == [tag |-> "Num", n |-> x]

StrVal(s) == [tag |-> "Str", s |-> s]

NativeVal(id) == [tag |-> "NativeFunction", id |-> id]

FunVal(id) == [tag |-> "Function", id |-> id]

ClassVal(id) == [tag |-> "Class", id |-> id]

InstanceVal(id) == [tag |-> "Instance", id |-> id]

-----------------------------------------------------------------------------
(* The parser (syntax/parser.rs; parser.rs is the same code apart from how *)
(* diagnostics are kept).  toks is the token stream the scanner yields;    *)
(* the parser record p holds the number of tokens consumed, the span of    *)
(* the last consumed token, the diagnostics reported so far (printed by    *)
(* spanned_error, pushed on `errors` by parser.rs) and had_error.  A       *)
(* ParseResult is [ok, p, val] or [ok, p, err].                            *)

MaxParams == 255

\* Parser::new.  `recoveries` is a history kept for the properties: where
\* each synchronize began and where it stopped.
Parser_new ==
    [pos |-> 0, span |-> Span_new, diags |-> <<>>, had_error |-> FALSE,
     recoveries |-> <<>>]

Ok(p, v) == [ok |-> TRUE, p |-> p, val |-> v]

Err(p, e, sp) == [ok |-> FALSE, p |-> p, err |-> [value |-> e, span |-> sp]]

tokens_peek(toks, p) ==
    IF p.pos < Len(toks) THEN <<toks[p.pos + 1]>> ELSE <<>>

Parser_finished(toks, p) ==
    LET next == tokens_peek(toks, p)
    IN  IF next # <<>> THEN next[1].token_type = "Eof" ELSE TRUE

spanned_error(p, spanned) == [p EXCEPT !.diags = Append(@, spanned)]

Parser_check(toks, p, token_type) ==
    LET next == tokens_peek(toks, p)
    IN  next # <<>> /\ next[1].token_type = token_type

Parser_consume(toks, p) ==
    LET peeked == tokens_peek(toks, p)
    IN  IF peeked # <<>>
        THEN [p |-> [p EXCEPT !.span = peeked[1].span, !.pos = @ + 1],
              tok |-> peeked]
        ELSE [p |-> p, tok |-> <<>>]

SyncKeywords ==
    {"Class", "Fun", "Var", "For", "If", "While", "Print", "Return"}

RECURSIVE synchronize(_, _)
\* A synchronize that stops in front of a `;` instead of behind it.
synchronize_keep_semicolon(toks, p) ==
    LET c == Parser_consume(toks, p)
        next == tokens_peek(toks, c.p)
    IN  IF Parser_check(toks, p, "Semicolon") THEN p
        ELSE IF c.tok = <<>> THEN c.p
        ELSE IF next = <<>> THEN synchronize(toks, c.p)
        ELSE IF next[1].token_type \in SyncKeywords THEN c.p
        ELSE synchronize(toks, c.p)

synchronize(toks, p) ==
    LET c == Parser_consume(toks, p)
        next == tokens_peek(toks, c.p)
    IN  IF c.tok = <<>> THEN c.p
        ELSE IF c.tok[1].token_type = "Semicolon" THEN c.p
        ELSE IF next = <<>> THEN synchronize(toks, c.p)
        ELSE IF next[1].token_type \in SyncKeywords THEN c.p
        ELSE synchronize(toks, c.p)

matches(toks, p, ttype) ==
    IF Parser_check(toks, p, ttype) THEN Parser_consume(toks, p)
    ELSE [p |-> p, tok |-> <<>>]

match_any(toks, p, types) ==
    IF \E ttype \in types : Parser_check(toks, p, ttype)
    THEN Parser_consume(toks, p)
    ELSE [p |-> p, tok |-> <<>>]

expect(toks, p, expected, err) ==
    LET next == tokens_peek(toks, p)
    IN  IF next = <<>> THEN Err(p, err, p.span)
        ELSE IF next[1].token_type # expected THEN Err(p, err, p.span)
        ELSE Ok(Parser_consume(toks, p).p, next[1])

RECURSIVE Rule(_, _, _, _)
declaration(toks, p) ==
    LET m == matches(toks, p, "Var")
    IN  IF m.tok # <<>> THEN Rule("var_declaration", toks, m.p, <<>>)
        ELSE Rule("statement", toks, m.p, <<>>)

var_declaration(toks, p) ==
    LET name == expect(toks, p, "Identifier", "ExpectedVarName")
    IN  IF ~name.ok THEN name ELSE
    LET m == matches(toks, name.p, "Equal")
        init == IF m.tok # <<>> THEN Rule("expression", toks, m.p, <<>>) ELSE Ok(m.p, <<>>)
    IN  IF ~init.ok THEN init ELSE
    LET semi == expect(toks, init.p, "Semicolon", "ExpectedSemicolon")
    IN  IF ~semi.ok THEN semi ELSE
        Ok(semi.p, [kind |-> "Var", name |-> name.val,
                    initializer |-> IF m.tok # <<>> THEN <<init.val>>
                                    ELSE <<>>])

statement(toks, p) ==
    LET next == tokens_peek(toks, p)
        tt == IF next = <<>> THEN "" ELSE next[1].token_type
        c == Parser_consume(toks, p)
    IN  CASE tt = "Return" -> Rule("return_statement", toks, c.p, c.tok[1])
          [] tt = "Class" -> Rule("class", toks, c.p, <<>>)
          [] tt = "Fun" -> Rule("function", toks, c.p, <<>>)
          [] tt = "If" -> Rule("if_statement", toks, c.p, <<>>)
          [] tt = "While" -> Rule("while_statement", toks, c.p, <<>>)
          [] tt = "For" -> Rule("for_statement", toks, c.p, <<>>)
          [] tt = "Print" -> Rule("print_statement", toks, c.p, <<>>)
          [] tt = "LeftBrace" ->
                LET b == Rule("block", toks, c.p, <<>>)
                IN  IF ~b.ok THEN b
                    ELSE Ok(b.p, [kind |-> "Block", statements |-> b.val])
          [] OTHER -> Rule("expression_statement", toks, p, <<>>)

ClassMethods(toks, p, methods) ==
    IF ~Parser_check(toks, p, "RightBrace") /\ ~Parser_finished(toks, p)
    THEN LET m == Rule("function", toks, p, <<>>)
         IN  IF ~m.ok THEN m
             ELSE Rule("ClassMethods", toks, m.p, Append(methods, m.val))
    ELSE Ok(p, methods)

class(toks, p) ==
    LET name == expect(toks, p, "Identifier", "ExpectedClassName")
    IN  IF ~name.ok THEN name ELSE
    LET lb == expect(toks, name.p, "LeftBrace", "ExpectedLeftBrace")
    IN  IF ~lb.ok THEN lb ELSE
    LET methods == Rule("ClassMethods", toks, lb.p, <<>>)
    IN  IF ~methods.ok THEN methods ELSE
    LET rb == expect(toks, methods.p, "RightBrace", "ExpectedRightBrace")
    IN  IF ~rb.ok THEN rb ELSE
        Ok(rb.p, [kind |-> "Class", name |-> name.val,
                  methods |-> methods.val])

return_statement(toks, p, keyword) ==
    LET none == Parser_check(toks, p, "Semicolon")
        expr == IF none THEN Ok(p, <<>>) ELSE Rule("expression", toks, p, <<>>)
    IN  IF ~expr.ok THEN expr ELSE
    LET semi == expect(toks, expr.p, "Semicolon", "ExpectedSemicolon")
    IN  IF ~semi.ok THEN semi ELSE
        Ok(semi.p, [kind |-> "Return", keyword |-> keyword,
                    expr |-> IF none THEN <<>> ELSE <<expr.val>>])

\* The `while let Some(_) = self.matches(Comma)` loop of Rule("function", , <<>>, <<>>).
FunctionParams(toks, p, params) ==
    LET m == matches(toks, p, "Comma")
    IN  IF m.tok = <<>> THEN Ok(m.p, params) ELSE
    LET p1 == IF Len(params) >= MaxParams
              THEN spanned_error(m.p, [value |-> "TooManyParams",
                                       span |-> tokens_peek(toks, m.p)[1].span])
              ELSE m.p
        param == expect(toks, p1, "Identifier", "ExpectedParamName")
    IN  IF ~param.ok THEN param
        ELSE Rule("FunctionParams", toks, param.p, Append(params, param.val))

function(toks, p) ==
    LET name == expect(toks, p, "Identifier", "ExpectedFunName")
    IN  IF ~name.ok THEN name ELSE
    LET lp == expect(toks, name.p, "LeftParen", "ExpectedLeftParen")
    IN  IF ~lp.ok THEN lp ELSE
    LET first == IF ~Parser_check(toks, lp.p, "RightParen")
                 THEN expect(toks, lp.p, "Identifier", "ExpectedParamName")
                 ELSE Ok(lp.p, <<>>)
    IN  IF ~first.ok THEN first ELSE
    LET params == IF ~Parser_check(toks, lp.p, "RightParen")
                  THEN Rule("FunctionParams", toks, first.p, <<first.val>>)
                  ELSE Ok(first.p, <<>>)
    IN  IF ~params.ok THEN params ELSE
    LET rp == expect(toks, params.p, "RightParen", "ExpectedRightParen")
    IN  IF ~rp.ok THEN rp ELSE
    LET lb == expect(toks, rp.p, "LeftBrace", "ExpectedLeftBrace")
    IN  IF ~lb.ok THEN lb ELSE
    LET body == Rule("block", toks, lb.p, <<>>)
    IN  IF ~body.ok THEN body ELSE
        Ok(body.p, [kind |-> "Fun", name |-> name.val,
                    params |-> params.val, body |-> body.val])

if_statement(toks, p) ==
    LET lp == expect(toks, p, "LeftParen", "ExpectedLeftParen")
    IN  IF ~lp.ok THEN lp ELSE
    LET condition == Rule("expression", toks, lp.p, <<>>)
    IN  IF ~condition.ok THEN condition ELSE
    LET rp == expect(toks, condition.p, "RightParen", "ExpectedRightParen")
    IN  IF ~rp.ok THEN rp ELSE
    LET then_branch == Rule("statement", toks, rp.p, <<>>)
    IN  IF ~then_branch.ok THEN then_branch ELSE
    LET m == matches(toks, then_branch.p, "Else")
        else_branch == IF m.tok # <<>> THEN Rule("statement", toks, m.p, <<>>)
                       ELSE Ok(m.p, <<>>)
    IN  IF ~else_branch.ok THEN else_branch ELSE
        Ok(else_branch.p,
           [kind |-> "If", condition |-> condition.val,
            then_branch |-> then_branch.val,
            else_branch |-> IF m.tok # <<>> THEN <<else_branch.val>>
                            ELSE <<>>])

while_statement(toks, p) ==
    LET lp == expect(toks, p, "LeftParen", "ExpectedLeftParen")
    IN  IF ~lp.ok THEN lp ELSE
    LET condition == Rule("expression", toks, lp.p, <<>>)
    IN  IF ~condition.ok THEN condition ELSE
    LET rp == expect(toks, condition.p, "RightParen", "ExpectedRightParen")
    IN  IF ~rp.ok THEN rp ELSE
    LET body == Rule("statement", toks, rp.p, <<>>)
    IN  IF ~body.ok THEN body ELSE
        Ok(body.p, [kind |-> "While", condition |-> condition.val,
                    body |-> body.val])

\* Some(r): wraps the value of a successful result as a one-element option.
Some(r) == IF ~r.ok THEN r ELSE Ok(r.p, <<r.val>>)

\* The three optional clauses of a for header, and the desugaring into a
\* while loop; for_statement threads the parser position through them.
for_initializer(toks, p) ==
    IF matches(toks, p, "Semicolon").tok # <<>>
    THEN Ok(matches(toks, p, "Semicolon").p, <<>>)
    ELSE IF matches(toks, p, "Var").tok # <<>>
    THEN Some(Rule("var_declaration", toks, matches(toks, p, "Var").p, <<>>))
    ELSE Some(Rule("expression_statement", toks, p, <<>>))

for_condition(toks, p) ==
    IF ~Parser_check(toks, p, "Semicolon")
    THEN Some(Rule("expression", toks, p, <<>>))
    ELSE Ok(p, <<>>)

for_increment(toks, p) ==
    IF ~Parser_check(toks, p, "RightParen")
    THEN Some(Rule("expression", toks, p, <<>>))
    ELSE Ok(p, <<>>)

for_while(condition, body) ==
    [kind |-> "While",
     condition |-> IF condition # <<>> THEN condition[1]
                   ELSE [kind |-> "Literal", value |-> BoolVal(TRUE)],
     body |-> body]

\* A desugaring that puts the increment before the body.
for_desugar_increment_first(initializer, condition, increment, body) ==
    IF initializer # <<>>
    THEN [kind |-> "Block",
          statements |-> <<initializer[1], for_while(condition,
              IF increment # <<>>
              THEN [kind |-> "Block",
                    statements |-> <<[kind |-> "Expression",
                                      expr |-> increment[1]], body>>]
              ELSE body)>>]
    ELSE for_while(condition,
              IF increment # <<>>
              THEN [kind |-> "Block",
                    statements |-> <<[kind |-> "Expression",
                                      expr |-> increment[1]], body>>]
              ELSE body)

for_desugar(initializer, condition, increment, body) ==
    IF initializer # <<>>
    THEN [kind |-> "Block",
          statements |-> <<initializer[1], for_while(condition,
              IF increment # <<>>
              THEN [kind |-> "Block",
                    statements |-> <<body, [kind |-> "Expression",
                                            expr |-> increment[1]]>>]
              ELSE body)>>]
    ELSE for_while(condition,
              IF increment # <<>>
              THEN [kind |-> "Block",
                    statements |-> <<body, [kind |-> "Expression",
                                            expr |-> increment[1]]>>]
              ELSE body)

for_statement(toks, p) ==
    LET lp == expect(toks, p, "LeftParen", "ExpectedLeftParen")
    IN  IF ~lp.ok THEN lp ELSE
    LET initializer == for_initializer(toks, lp.p)
    IN  IF ~initializer.ok THEN initializer ELSE
    LET condition == for_condition(toks, initializer.p)
    IN  IF ~condition.ok THEN condition ELSE
    LET semi == expect(toks, condition.p, "Semicolon", "ExpectedSemicolon")
    IN  IF ~semi.ok THEN semi ELSE
    LET increment == for_increment(toks, semi.p)
    IN  IF ~increment.ok THEN increment ELSE
    LET rp == expect(toks, increment.p, "RightParen", "ExpectedRightParen")
    IN  IF ~rp.ok THEN rp ELSE
    LET body == Rule("statement", toks, rp.p, <<>>)
    IN  IF ~body.ok THEN body ELSE
        Ok(body.p, for_desugar(initializer.val, condition.val,
                               increment.val, body.val))

print_statement(toks, p) ==
    LET expr == Rule("expression", toks, p, <<>>)
    IN  IF ~expr.ok THEN expr ELSE
    LET semi == expect(toks, expr.p, "Semicolon", "ExpectedSemicolon")
    IN  IF ~semi.ok THEN semi ELSE
        Ok(semi.p, [kind |-> "Print", expr |-> expr.val])

BlockStatements(toks, p, statements) ==
    IF ~Parser_check(toks, p, "RightBrace") /\ ~Parser_finished(toks, p)
    THEN LET d == Rule("declaration", toks, p, <<>>)
         IN  IF ~d.ok THEN d
             ELSE Rule("BlockStatements", toks, d.p, Append(statements, d.val))
    ELSE Ok(p, statements)

block(toks, p) ==
    LET statements == Rule("BlockStatements", toks, p, <<>>)
    IN  IF ~statements.ok THEN statements ELSE
    LET rb == expect(toks, statements.p, "RightBrace", "ExpectedRightBrace")
    IN  IF ~rb.ok THEN rb ELSE Ok(rb.p, statements.val)

expression_statement(toks, p) ==
    LET expr == Rule("expression", toks, p, <<>>)
    IN  IF ~expr.ok THEN expr ELSE
    LET semi == expect(toks, expr.p, "Semicolon", "ExpectedSemicolon")
    IN  IF ~semi.ok THEN semi ELSE
        Ok(semi.p, [kind |-> "Expression", expr |-> expr.val])

expression(toks, p) == Rule("assignment", toks, p, <<>>)

assignment(toks, p) ==
    LET expr == Rule("or", toks, p, <<>>)
    IN  IF ~expr.ok THEN expr ELSE
    LET m == matches(toks, expr.p, "Equal")
    IN  IF m.tok = <<>> THEN Ok(m.p, expr.val) ELSE
    LET value == Rule("assignment", toks, m.p, <<>>)
    IN  IF ~value.ok THEN value
        ELSE IF expr.val.kind = "Variable"
        THEN Ok(value.p, [kind |-> "Assignment", name |-> expr.val.name,
                          value |-> value.val])
        ELSE IF expr.val.kind = "Get"
        THEN Ok(value.p, [kind |-> "Set", name |-> expr.val.name,
                          object |-> expr.val.object, value |-> value.val])
        ELSE Err(value.p, "InvalidAssigTarget", value.p.span)

OrLoop(toks, p, expr) ==
    LET op == matches(toks, p, "Or")
    IN  IF op.tok = <<>> THEN Ok(op.p, expr) ELSE
    LET right == Rule("and", toks, op.p, <<>>)
    IN  IF ~right.ok THEN right
        ELSE Rule("OrLoop", toks, right.p, [kind |-> "Logical", op |-> op.tok[1],
                                    left |-> expr, right |-> right.val])

or(toks, p) ==
    LET expr == Rule("and", toks, p, <<>>)
    IN  IF ~expr.ok THEN expr ELSE Rule("OrLoop", toks, expr.p, expr.val)

AndLoop(toks, p, expr) ==
    LET op == matches(toks, p, "And")
    IN  IF op.tok = <<>> THEN Ok(op.p, expr) ELSE
    LET right == Rule("equality", toks, op.p, <<>>)
    IN  IF ~right.ok THEN right
        ELSE Rule("AndLoop", toks, right.p, [kind |-> "Logical", op |-> op.tok[1],
                                     left |-> expr, right |-> right.val])

and(toks, p) ==
    LET expr == Rule("equality", toks, p, <<>>)
    IN  IF ~expr.ok THEN expr ELSE Rule("AndLoop", toks, expr.p, expr.val)

EqualityLoop(toks, p, expr) ==
    LET op == match_any(toks, p, {"BangEqual", "EqualEqual"})
    IN  IF op.tok = <<>> THEN Ok(op.p, expr) ELSE
    LET right == Rule("comparison", toks, op.p, <<>>)
    IN  IF ~right.ok THEN right
        ELSE Rule("EqualityLoop", toks, right.p, [kind |-> "Binary", op |-> op.tok[1],
                                          left |-> expr, right |-> right.val])

equality(toks, p) ==
    LET expr == Rule("comparison", toks, p, <<>>)
    IN  IF ~expr.ok THEN expr ELSE Rule("EqualityLoop", toks, expr.p, expr.val)

ComparisonLoop(toks, p, expr) ==
    LET op == match_any(toks, p,
                        {"Greater", "GreaterEqual", "Less", "LessEqual"})
    IN  IF op.tok = <<>> THEN Ok(op.p, expr) ELSE
    LET right == Rule("term", toks, op.p, <<>>)
    IN  IF ~right.ok THEN right
        ELSE Rule("ComparisonLoop", toks, right.p, [kind |-> "Binary", op |-> op.tok[1],
                             left |-> expr, right |-> right.val])

comparison(toks, p) ==
    LET expr == Rule("term", toks, p, <<>>)
    IN  IF ~expr.ok THEN expr ELSE Rule("ComparisonLoop", toks, expr.p, expr.val)

TermLoop(toks, p, expr) ==
    LET op == match_any(toks, p, {"Minus", "Plus"})
    IN  IF op.tok = <<>> THEN Ok(op.p, expr) ELSE
    LET right == Rule("factor", toks, op.p, <<>>)
    IN  IF ~right.ok THEN right
        ELSE Rule("TermLoop", toks, right.p, [kind |-> "Binary", op |-> op.tok[1],
                                      left |-> expr, right |-> right.val])

term(toks, p) ==
    LET expr == Rule("factor", toks, p, <<>>)
    IN  IF ~expr.ok THEN expr ELSE Rule("TermLoop", toks, expr.p, expr.val)

FactorLoop(toks, p, expr) ==
    LET op == match_any(toks, p, {"Slash", "Star"})
    IN  IF op.tok = <<>> THEN Ok(op.p, expr) ELSE
    LET right == Rule("unary", toks, op.p, <<>>)
    IN  IF ~right.ok THEN right
        ELSE Rule("FactorLoop", toks, right.p, [kind |-> "Binary", op |-> op.tok[1],
                                        left |-> expr, right |-> right.val])

factor(toks, p) ==
    LET expr == Rule("unary", toks, p, <<>>)
    IN  IF ~expr.ok THEN expr ELSE Rule("FactorLoop", toks, expr.p, expr.val)

unary(toks, p) ==
    LET op == match_any(toks, p, {"Bang", "Minus"})
    IN  IF op.tok = <<>> THEN Rule("call", toks, p, <<>>) ELSE
    LET right == Rule("unary", toks, op.p, <<>>)
    IN  IF ~right.ok THEN right
        ELSE Ok(right.p, [kind |-> "Unary", op |-> op.tok[1],
                          right |-> right.val])

\* One turn of the loop of Rule("call", , <<>>, <<>>): `if ( ... } if . { ... } else { break }`.
CallLoop(toks, p, expr) ==
    LET lp == matches(toks, p, "LeftParen")
        called == IF lp.tok # <<>> THEN Rule("finish_call", toks, lp.p, expr)
                  ELSE Ok(lp.p, expr)
    IN  IF ~called.ok THEN called ELSE
    LET dot == matches(toks, called.p, "Dot")
    IN  IF dot.tok = <<>> THEN Ok(dot.p, called.val) ELSE
    LET name == expect(toks, dot.p, "Identifier", "ExpectedPropertyName")
    IN  IF ~name.ok THEN name
        ELSE Rule("CallLoop", toks, name.p, [kind |-> "Get", name |-> name.val,
                                     object |-> called.val])

call(toks, p) ==
    LET expr == Rule("primary", toks, p, <<>>)
    IN  IF ~expr.ok THEN expr ELSE Rule("CallLoop", toks, expr.p, expr.val)

\* The `while let Some(_) = self.matches(Comma)` loop of Rule("finish_call", , <<>>, <<>>).
FinishCallArgs(toks, p, arguments) ==
    LET m == matches(toks, p, "Comma")
    IN  IF m.tok = <<>> THEN Ok(m.p, arguments) ELSE
    LET p1 == IF Len(arguments) >= MaxParams
              THEN spanned_error(m.p, [value |-> "TooManyArgs",
                                       span |-> tokens_peek(toks, m.p)[1].span])
              ELSE m.p
        arg == Rule("expression", toks, p1, <<>>)
    IN  IF ~arg.ok THEN arg
        ELSE Rule("FinishCallArgs", toks, arg.p, Append(arguments, arg.val))

finish_call(toks, p, callee) ==
    LET first == IF ~Parser_check(toks, p, "RightParen")
                 THEN Rule("expression", toks, p, <<>>) ELSE Ok(p, <<>>)
    IN  IF ~first.ok THEN first ELSE
    LET arguments == IF ~Parser_check(toks, p, "RightParen")
                     THEN Rule("FinishCallArgs", toks, first.p, <<first.val>>)
                     ELSE Ok(first.p, <<>>)
    IN  IF ~arguments.ok THEN arguments ELSE
    LET paren == expect(toks, arguments.p, "RightParen", "ExpectedRightBrace")
    IN  IF ~paren.ok THEN paren ELSE
        Ok(paren.p, [kind |-> "Call", callee |-> callee, paren |-> paren.val,
                     arguments |-> arguments.val])

primary(toks, p) ==
    LET next == tokens_peek(toks, p)
        tt == IF next = <<>> THEN "" ELSE next[1].token_type
        c == Parser_consume(toks, p)
        token == c.tok[1]
    IN  CASE tt = "This" -> Ok(c.p, [kind |-> "This", keyword |-> token])
          [] tt = "False" ->
                Ok(c.p, [kind |-> "Literal", value |-> BoolVal(FALSE)])
          [] tt = "True" ->
                Ok(c.p, [kind |-> "Literal", value |-> BoolVal(TRUE)])
          [] tt = "Nil" -> Ok(c.p, [kind |-> "Literal", value |-> NilVal])
          [] tt = "String" ->
                Ok(c.p, [kind |-> "Literal",
                         value |-> StrVal(SubSeq(token.lexeme, 2,
                                                 Len(token.lexeme) - 1))])
          [] tt = "Number" ->
                Ok(c.p, [kind |-> "Literal",
                         value |-> NumVal(ParseNumber(token.lexeme))])
          [] tt = "Identifier" ->
                Ok(c.p, [kind |-> "Variable", name |-> token])
          [] tt = "LeftParen" ->
                LET expr == Rule("expression", toks, c.p, <<>>)
                IN  IF ~expr.ok THEN expr ELSE
                    LET rp == expect(toks, expr.p, "RightParen",
                                     "ExpectedRightParen")
                    IN  IF ~rp.ok THEN rp
                        ELSE Ok(rp.p, [kind |-> "Grouping",
                                       expr |-> expr.val])
          [] OTHER -> Err(p, "ExpectedExpression", p.span)

Rule(r, toks, p, a) ==
    CASE r = "declaration" -> declaration(toks, p)
      [] r = "var_declaration" -> var_declaration(toks, p)
      [] r = "statement" -> statement(toks, p)
      [] r = "class" -> class(toks, p)
      [] r = "ClassMethods" -> ClassMethods(toks, p, a)
      [] r = "return_statement" -> return_statement(toks, p, a)
      [] r = "function" -> function(toks, p)
      [] r = "FunctionParams" -> FunctionParams(toks, p, a)
      [] r = "if_statement" -> if_statement(toks, p)
      [] r = "while_statement" -> while_statement(toks, p)
      [] r = "for_statement" -> for_statement(toks, p)
      [] r = "print_statement" -> print_statement(toks, p)
      [] r = "block" -> block(toks, p)
      [] r = "BlockStatements" -> BlockStatements(toks, p, a)
      [] r = "expression_statement" -> expression_statement(toks, p)
      [] r = "expression" -> expression(toks, p)
      [] r = "assignment" -> assignment(toks, p)
      [] r = "or" -> or(toks, p)
      [] r = "OrLoop" -> OrLoop(toks, p, a)
      [] r = "and" -> and(toks, p)
      [] r = "AndLoop" -> AndLoop(toks, p, a)
      [] r = "equality" -> equality(toks, p)
      [] r = "EqualityLoop" -> EqualityLoop(toks, p, a)
      [] r = "comparison" -> comparison(toks, p)
      [] r = "ComparisonLoop" -> ComparisonLoop(toks, p, a)
      [] r = "term" -> term(toks, p)
      [] r = "TermLoop" -> TermLoop(toks, p, a)
      [] r = "factor" -> factor(toks, p)
      [] r = "FactorLoop" -> FactorLoop(toks, p, a)
      [] r = "unary" -> unary(toks, p)
      [] r = "call" -> call(toks, p)
      [] r = "CallLoop" -> CallLoop(toks, p, a)
      [] r = "finish_call" -> finish_call(toks, p, a)
      [] r = "FinishCallArgs" -> FinishCallArgs(toks, p, a)
      [] r = "primary" -> primary(toks, p)

\* History: a synchronize that began with the parser p_at and left p_to.
Recovery(p_at, p_to) ==
    [p_to EXCEPT !.recoveries = Append(@, [at |-> p_at.pos, to |-> p_to.pos])]

\* The body of the loop of parse(), given what declaration() returned:
\* push the statement, or report the error and synchronize.
ParseTurn(toks, statements, d) ==
    IF d.ok THEN [statements |-> Append(statements, d.val), p |-> d.p]
    ELSE [statements |-> statements,
          p |-> Recovery(d.p, synchronize(toks, spanned_error(d.p, d.err)))]

\* The loop of parse(): [statements, p] when the token stream is finished.
RECURSIVE ParseLoop(_, _, _)
\* The next turn of the loop, after the turn that gave t.
ParseNext(toks, t) == ParseLoop(toks, t.p, t.statements)

ParseLoop(toks, p, statements) ==
    IF Parser_finished(toks, p) THEN [statements |-> statements, p |-> p]
    ELSE ParseNext(toks, ParseTurn(toks, statements,
                                   Rule("declaration", toks, p, <<>>)))

\* syntax/parser.rs: Result<Ast, ()> decided by had_error.
ParseResult(r) ==
    [ok |-> ~r.p.had_error, ast |-> r.statements, diags |-> r.p.diags,
     recoveries |-> r.p.recoveries, pos |-> r.p.pos]

Parser_parse(toks) == ParseResult(ParseLoop(toks, Parser_new, <<>>))

\* parser.rs: Result<Ast, Vec<Spanned<LoxError>>> decided by `errors`.
LegacyParseResult(r) ==
    [ok |-> Len(r.p.diags) = 0, ast |-> r.statements, diags |-> r.p.diags]

LegacyParser_parse(toks) == LegacyParseResult(ParseLoop(toks, Parser_new, <<>>))

-----------------------------------------------------------------------------
(* The resolver (interpreter/resolver.rs).  A scope maps a name to         *)
(* "defined"; locals maps an expression to a distance.  The key of locals  *)
(* is the expression itself, compared structurally as the derived Hash and *)
(* Eq of Expr do (the tokens in it carry their spans).  `diags` are the    *)
(* diagnostics handed to Resolver::error.  No visit ever returns Err.      *)

\* map.insert(k, v) on a HashMap modelled as a function.
Insert(map, k, v) ==
    [x \in DOMAIN map \cup {k} |-> IF x = k THEN v ELSE map[x]]

EmptyMap == [x \in {} |-> 0]

\* Resolver::new.  `resolved` is a history kept for the properties: the
\* expressions handed to resolve_local, each with the scopes at that moment.
Resolver_new ==
    [scopes |-> <<>>, locals |-> EmptyMap, diags |-> <<>>, resolved |-> <<>>]

Resolver_error(r, spanned) == [r EXCEPT !.diags = Append(@, spanned)]

Resolver_push_scope(r) == [r EXCEPT !.scopes = Append(@, EmptyMap)]

Resolver_pop_scope(r) ==
    [r EXCEPT !.scopes = SubSeq(@, 1, Len(@) - 1)]

Resolver_declare(r, name) ==
    IF r.scopes # <<>>
    THEN [r EXCEPT !.scopes[Len(r.scopes)] = Insert(@, name.lexeme, FALSE)]
    ELSE r

Resolver_define(r, name) ==
    IF r.scopes # <<>>
    THEN [r EXCEPT !.scopes[Len(r.scopes)] = Insert(@, name.lexeme, TRUE)]
    ELSE r

resolve_class(r, name) == Resolver_define(Resolver_declare(r, name), name)

\* A resolve_local that records the farthest scope that has the name.
resolve_local_outermost(r, expr, name) ==
    LET has == {i \in 0..(Len(r.scopes) - 1) :
                    name.lexeme \in DOMAIN r.scopes[Len(r.scopes) - i]}
    IN  IF has = {} THEN r
        ELSE LET i == CHOOSE i \in has : \A j \in has : i >= j
             IN  [r EXCEPT !.locals = Insert(@, expr, i)]

\* The distance resolve_local records for `name`: the number of scopes
\* between the innermost scope and the nearest one that has the name.
resolve_local(r, expr, name) ==
    LET has == {i \in 0..(Len(r.scopes) - 1) :
                    name.lexeme \in DOMAIN r.scopes[Len(r.scopes) - i]}
    IN  IF has = {} THEN r
        ELSE LET i == CHOOSE i \in has : \A j \in has : i <= j
             IN  [r EXCEPT !.locals = Insert(@, expr, i)]

RECURSIVE Resolver_visit(_, _, _, _), DeclareParams(_, _)
resolve_many(r, statements) ==
    IF statements = <<>> THEN r
    ELSE Resolver_visit("resolve_many", Resolver_visit("Resolver_visit_stmt", r, Head(statements), <<>>), Tail(statements), <<>>)

DeclareParams(r, params) ==
    IF params = <<>> THEN r
    ELSE DeclareParams(
            Resolver_define(Resolver_declare(r, Head(params)), Head(params)),
            Tail(params))

resolve_fun(r, params, body) ==
    Resolver_pop_scope(
        Resolver_visit("resolve_many", DeclareParams(Resolver_push_scope(r), params), body, <<>>))

ResolveMethods(r, methods) ==
    IF methods = <<>> THEN r
    ELSE Resolver_visit("ResolveMethods", IF Head(methods).kind = "Fun"
            THEN Resolver_visit("resolve_fun", r, Head(methods).params, Head(methods).body)
            ELSE r, Tail(methods), <<>>)

ResolveArgs(r, arguments) ==
    IF arguments = <<>> THEN r
    ELSE Resolver_visit("ResolveArgs", Resolver_visit("Resolver_visit_expr", r, Head(arguments), <<>>), Tail(arguments), <<>>)

Resolver_visit_stmt(r, stmt) ==
    CASE stmt.kind = "Block" ->
            Resolver_pop_scope(
                Resolver_visit("resolve_many", Resolver_push_scope(r), stmt.statements, <<>>))
      [] stmt.kind = "Var" ->
            LET r1 == Resolver_declare(r, stmt.name)
                r2 == IF stmt.initializer # <<>>
                      THEN Resolver_visit("Resolver_visit_expr", r1, stmt.initializer[1], <<>>)
                      ELSE r1
            IN  Resolver_define(r2, stmt.name)
      [] stmt.kind = "Fun" ->
            Resolver_visit("resolve_fun", Resolver_define(Resolver_declare(r, stmt.name), stmt.name), stmt.params, stmt.body)
      [] stmt.kind = "Expression" -> Resolver_visit("Resolver_visit_expr", r, stmt.expr, <<>>)
      [] stmt.kind = "If" ->
            LET r1 == Resolver_visit("Resolver_visit_expr", r, stmt.condition, <<>>)
                r2 == Resolver_visit("Resolver_visit_stmt", r1, stmt.then_branch, <<>>)
            IN  IF stmt.else_branch # <<>>
                THEN Resolver_visit("Resolver_visit_stmt", r2, stmt.else_branch[1], <<>>)
                ELSE r2
      [] stmt.kind = "Print" -> Resolver_visit("Resolver_visit_expr", r, stmt.expr, <<>>)
      [] stmt.kind = "Return" ->
            IF stmt.expr # <<>> THEN Resolver_visit("Resolver_visit_expr", r, stmt.expr[1], <<>>)
            ELSE r
      [] stmt.kind = "While" ->
            Resolver_visit("Resolver_visit_stmt", Resolver_visit("Resolver_visit_expr", r, stmt.condition, <<>>), stmt.body, <<>>)
      [] stmt.kind = "Class" ->
            LET r1 == Resolver_push_scope(resolve_class(r, stmt.name))
                r2 == [r1 EXCEPT !.scopes[Len(r1.scopes)] =
                                    Insert(@, <<"t", "h", "i", "s">>, TRUE)]
            IN  Resolver_pop_scope(Resolver_visit("ResolveMethods", r2, stmt.methods, <<>>))

\* History: expr is about to be handed to resolve_local.
Resolving(r, expr, name) ==
    [r EXCEPT !.resolved = Append(@, [expr |-> expr, name |-> name.lexeme,
                                      scopes |-> r.scopes])]

Resolver_visit_expr(r, expr) ==
    CASE expr.kind = "Variable" ->
            LET scope == r.scopes[Len(r.scopes)]
                r1 == IF /\ r.scopes # <<>>
                         /\ expr.name.lexeme \in DOMAIN scope
                         /\ ~scope[expr.name.lexeme]
                      THEN Resolver_error(r, [value |-> "RecursiveVarDecl",
                                              span |-> expr.name.span])
                      ELSE r
            IN  resolve_local(Resolving(r1, expr, expr.name), expr, expr.name)
      [] expr.kind = "Assignment" ->
            resolve_local(Resolving(Resolver_visit("Resolver_visit_expr", r, expr.value, <<>>), expr, expr.name), expr, expr.name)
      [] expr.kind = "Binary" ->
            Resolver_visit("Resolver_visit_expr", Resolver_visit("Resolver_visit_expr", r, expr.left, <<>>), expr.right, <<>>)
      [] expr.kind = "Call" ->
            Resolver_visit("ResolveArgs", Resolver_visit("Resolver_visit_expr", r, expr.callee, <<>>), expr.arguments, <<>>)
      [] expr.kind = "Grouping" -> Resolver_visit("Resolver_visit_expr", r, expr.expr, <<>>)
      [] expr.kind = "Literal" -> r
      [] expr.kind = "Logical" ->
            Resolver_visit("Resolver_visit_expr", Resolver_visit("Resolver_visit_expr", r, expr.left, <<>>), expr.right, <<>>)
      [] expr.kind = "Unary" -> Resolver_visit("Resolver_visit_expr", r, expr.right, <<>>)
      [] expr.kind = "Get" -> Resolver_visit("Resolver_visit_expr", r, expr.object, <<>>)
      [] expr.kind = "Set" ->
            Resolver_visit("Resolver_visit_expr", Resolver_visit("Resolver_visit_expr", r, expr.value, <<>>), expr.object, <<>>)
      [] expr.kind = "This" ->
            resolve_local(Resolving(r, expr, expr.keyword), expr, expr.keyword)

\* One visit of the resolver `res`.  A visit starts from a resolver that the
\* visits before it have finished with: the first arm evaluates `res`, and
\* never applies, for every resolver has these four fields.
Resolver_visit(r, res, a, b) ==
    CASE DOMAIN res # {"scopes", "locals", "diags", "resolved"} -> res
      [] r = "Resolver_visit_stmt" -> Resolver_visit_stmt(res, a)
      [] r = "Resolver_visit_expr" -> Resolver_visit_expr(res, a)
      [] r = "resolve_many" -> resolve_many(res, a)
      [] r = "resolve_fun" -> resolve_fun(res, a, b)
      [] r = "ResolveMethods" -> ResolveMethods(res, a)
      [] r = "ResolveArgs" -> ResolveArgs(res, a)

\* Visitor<&Ast>: resolve the whole program.
Resolver_visit_ast(program) ==
    Resolver_visit("resolve_many", Resolver_new, program, <<>>)

-----------------------------------------------------------------------------
(* The interpreter's heap.  An Interpreter record `it` holds the fields of *)
(* Interpreter (env, globals, locals) and the objects reachable through    *)
(* Rc: environments, functions, classes and instances, each named by its   *)
(* index.  `out` is what println! has written to standard output; `events` *)
(* is a history of what the interpreter did, kept for the properties.      *)

\* The characters of a string literal of this module.
Chars(str) == [i \in 1..Len(str) |-> SubSeq(str, i, i)]

\* The statements one run may execute before it is cut off.
MaxSteps == 400

LoxOk(it, v) == [it |-> it, ok |-> TRUE, val |-> v]

LoxErr(it, value, span) ==
    [it |-> it, ok |-> FALSE, err |-> [value |-> value, span |-> span]]

\* Err(Spanned { value: RuntimeError::Return(value), span: Span::new() })
ReturnErr(it, v) ==
    [it |-> it, ok |-> FALSE,
     err |-> [value |-> "Return", span |-> Span_new, ret |-> v]]

\* A panic (unwrap on None, unreachable!()) unwinds like an error that
\* nothing catches.
Panic(it) == LoxErr(it, "PANIC", Span_new)

Record(it, ev) == [it EXCEPT !.events = Append(@, ev)]

\* Env::global and Interpreter::new.  `millis` is the reading of the
\* system clock, in milliseconds since the epoch.
Interpreter_new(locals, millis) ==
    [env |-> 1, globals |-> 1, locals |-> locals,
     envs |-> <<[parent |-> 0,
                 bindings |-> Insert(EmptyMap, Chars("clock"),
                                     NativeVal("clock"))]>>,
     funs |-> <<>>, classes |-> <<>>, instances |-> <<>>,
     out |-> <<>>, events |-> <<>>, now |-> millis, steps |-> 0]

\* Rc::new(Env::new(parent)): the heap with the new frame, and the frame.
Env_new(it, parent) ==
    [it |-> [it EXCEPT !.envs = Append(@, [parent |-> parent,
                                           bindings |-> EmptyMap])],
     env |-> Len(it.envs) + 1]

Env_define(it, e, name, value) ==
    [it EXCEPT !.envs[e].bindings = Insert(@, name, value)]

RECURSIVE Env_assign(_, _, _, _)
\* An assign that binds the name in the outermost frame when no frame of
\* the chain binds it.
Env_assign_or_define(it, e, name, value) ==
    IF name.lexeme \in DOMAIN it.envs[e].bindings
    THEN LoxOk(Env_define(it, e, name.lexeme, value), NilVal)
    ELSE IF it.envs[e].parent # 0
    THEN Env_assign(it, it.envs[e].parent, name, value)
    ELSE LoxOk(Env_define(it, e, name.lexeme, value), NilVal)

Env_assign(it, e, name, value) ==
    IF name.lexeme \in DOMAIN it.envs[e].bindings
    THEN LoxOk(Env_define(it, e, name.lexeme, value), NilVal)
    ELSE IF it.envs[e].parent # 0
    THEN Env_assign(it, it.envs[e].parent, name, value)
    ELSE LoxErr(it, "UndeclaredVar", name.span)

RECURSIVE Env_get(_, _, _)
Env_get(it, e, name) ==
    IF name.lexeme \in DOMAIN it.envs[e].bindings
    THEN LoxOk(it, it.envs[e].bindings[name.lexeme])
    ELSE IF it.envs[e].parent # 0
    THEN Env_get(it, it.envs[e].parent, name)
    ELSE LoxErr(it, "UndeclaredVar", name.span)

\* The loop `for _ in 0..dist { env = env.parent.as_ref().unwrap() }` of
\* get_at and assign_at: the frame reached, 0 when an unwrap hits None.
RECURSIVE Ancestor(_, _, _)
Ancestor(it, e, dist) ==
    IF dist = 0 THEN e
    ELSE IF it.envs[e].parent = 0 THEN 0
    ELSE Ancestor(it, it.envs[e].parent, dist - 1)

Env_get_at(it, e, dist, name) ==
    LET env == Ancestor(it, e, dist)
    IN  IF env = 0 THEN Panic(it) ELSE Env_get(it, env, name)

Env_assign_at(it, e, dist, name, value) ==
    LET env == Ancestor(it, e, dist)
    IN  IF env = 0 THEN Panic(it) ELSE Env_assign(it, env, name, value)

\* History: an access through the resolver table.  `own` is the names
\* bound in the frame that lies exactly `dist` parent links above the
\* current one and `found` the binding of the name there, as they were
\* before the access; r is what get_at or assign_at gave and `changed` the
\* frames whose bindings it modified.
AccessEvent(it, kind, name, dist, r) ==
    LET env == Ancestor(it, it.env, dist)
    IN  [r EXCEPT !.it = Record(@,
            [type |-> "access", kind |-> kind, name |-> name.lexeme,
             dist |-> dist, from |-> it.env, frame |-> env,
             own |-> IF env = 0 THEN {} ELSE DOMAIN it.envs[env].bindings,
             found |-> IF env # 0 /\ name.lexeme \in DOMAIN it.envs[env].bindings
                       THEN <<it.envs[env].bindings[name.lexeme]>>
                       ELSE <<>>,
             ok |-> r.ok, res |-> IF r.ok THEN r.val ELSE r.err,
             changed |-> {e \in DOMAIN it.envs :
                            r.it.envs[e] # it.envs[e]}])]

is_truthy(v) ==
    CASE v.tag = "Nil" -> FALSE
      [] v.tag = "Bool" -> v.b
      [] OTHER -> TRUE

\* PartialEq for LoxValue.
LoxValue_eq(self, other) ==
    IF self.tag = "Nil" /\ other.tag = "Nil" THEN TRUE
    ELSE IF self.tag = "Nil" THEN FALSE
    ELSE IF self.tag = "Num" /\ other.tag = "Num" THEN RatEq(self.n, other.n)
    ELSE IF self.tag = "Str" /\ other.tag = "Str" THEN self.s = other.s
    ELSE IF self.tag = "Bool" /\ other.tag = "Bool" THEN self.b = other.b
    ELSE IF self.tag = "Function" /\ other.tag = "Function"
    THEN self.id = other.id
    ELSE IF self.tag = "NativeFunction" /\ other.tag = "NativeFunction"
    THEN self.id = other.id
    ELSE IF self.tag = "Class" /\ other.tag = "Class" THEN self.id = other.id
    ELSE FALSE

\* Display for LoxValue, LoxFunction, Clock, Class and Instance.
Display(it, v) ==
    CASE v.tag = "Nil" -> Chars("nil")
      [] v.tag = "Num" -> NumDisplay(v.n)
      [] v.tag = "Bool" -> IF v.b THEN Chars("true") ELSE Chars("false")
      [] v.tag = "Str" -> v.s
      [] v.tag = "Function" ->
            Chars("<function ") \o it.funs[v.id].name.lexeme \o Chars(">")
      [] v.tag = "NativeFunction" -> Chars("<native fn: clock>")
      [] v.tag = "Class" -> it.classes[v.id].name.lexeme
      [] v.tag = "Instance" ->
            Chars("[") \o it.classes[it.instances[v.id].class].name.lexeme
            \o Chars("]")

assert_num(it, v, op) ==
    IF v.tag = "Num" THEN LoxOk(it, v) ELSE LoxErr(it, "TypeError", op.span)

-----------------------------------------------------------------------------
(* Functions, classes and instances (interpreter/functions.rs, class.rs)   *)

\* LoxFunction { name, params, body, env } behind a new Rc.
NewFunction(it, name, params, body, env) ==
    [it |-> [it EXCEPT !.funs = Append(@, [name |-> name, params |-> params,
                                           body |-> body, env |-> env])],
     fun |-> Len(it.funs) + 1]

\* A different way to capture, by value: the function gets a copy of the
\* current frame as it is at the declaration.
capture_copy(it) ==
    [it |-> [it EXCEPT !.envs = Append(@, it.envs[it.env])],
     env |-> Len(it.envs) + 1]

\* `env: self.env.clone()` of Stmt::Fun: the Rc of the current frame.
capture(it) == [it |-> it, env |-> it.env]

\* Dynamic scoping: the frame of a call hangs under the caller's frame.
CallerEnv(it, f) == it.env

\* `Env::new(self.env.clone())` of LoxFunction::call: the parent of the
\* frame of a call of function f.
CallFrameParent(it, f) == it.funs[f].env

\* Binding that hands out the method itself, without a frame for `this`.
bind_shared(it, f, instance) == [it |-> it, fun |-> f]

\* LoxFunction::bind on a clone of the method: a new function whose
\* environment is a new frame that defines `this`.
bind(it, f, instance) ==
    LET n == Env_new(it, it.funs[f].env)
        it1 == Env_define(n.it, n.env, Chars("this"), InstanceVal(instance))
        m == it.funs[f]
    IN  NewFunction(it1, m.name, m.params, m.body, n.env)

\* A class call that hands out the instance of the class made before, when
\* there is one.
Class_call_reuse(it, cls) ==
    IF \E i \in DOMAIN it.instances : it.instances[i].class = cls
    THEN LoxOk(it, InstanceVal(CHOOSE i \in DOMAIN it.instances :
                                    it.instances[i].class = cls))
    ELSE LoxOk([it EXCEPT !.instances = Append(@, [class |-> cls,
                                                   fields |-> EmptyMap])],
               InstanceVal(Len(it.instances) + 1))

\* Call for Rc<Class>.
Class_call(it, cls) ==
    LoxOk([it EXCEPT !.instances = Append(@, [class |-> cls,
                                              fields |-> EmptyMap])],
          InstanceVal(Len(it.instances) + 1))

\* A read that looks in the methods of the class before the fields.
Instance_get_method_first(it, instance, name) ==
    LET inner == it.instances[instance]
        methods == it.classes[inner.class].methods
    IN  IF name.lexeme \in DOMAIN methods
        THEN LET b == bind(it, methods[name.lexeme], instance)
             IN  LoxOk(Record(b.it, [type |-> "bind", instance |-> instance,
                                     name |-> name.lexeme,
                                     method |-> methods[name.lexeme],
                                     fun |-> b.fun]),
                       FunVal(b.fun))
        ELSE IF name.lexeme \in DOMAIN inner.fields
        THEN LoxOk(it, inner.fields[name.lexeme])
        ELSE LoxErr(it, "UndefinedProperty", name.span)

Instance_get(it, instance, name) ==
    LET inner == it.instances[instance]
        methods == it.classes[inner.class].methods
    IN  IF name.lexeme \in DOMAIN inner.fields
        THEN LoxOk(it, inner.fields[name.lexeme])
        ELSE IF name.lexeme \in DOMAIN methods
        THEN LET b == bind(it, methods[name.lexeme], instance)
             IN  LoxOk(Record(b.it, [type |-> "bind", instance |-> instance,
                                     name |-> name.lexeme,
                                     method |-> methods[name.lexeme],
                                     fun |-> b.fun]),
                       FunVal(b.fun))
        ELSE LoxErr(it, "UndefinedProperty", name.span)

\* A write that binds a function it stores to the instance it is stored in.
Instance_set_rebinding(it, instance, name, value) ==
    IF value.tag = "Function"
    THEN LET b == bind(it, value.id, instance)
         IN  [b.it EXCEPT !.instances[instance].fields =
                              Insert(@, name.lexeme, FunVal(b.fun))]
    ELSE [it EXCEPT !.instances[instance].fields = Insert(@, name.lexeme, value)]

Instance_set(it, instance, name, value) ==
    [it EXCEPT !.instances[instance].fields = Insert(@, name.lexeme, value)]

\* History: a property read with the fields of the instance and the methods
\* of its class as they were at the read, and what the read gave.
GetEvent(it, instance, expr, r) ==
    [r EXCEPT !.it = Record(@,
        [type |-> "get", instance |-> instance, name |-> expr.name.lexeme,
         span |-> expr.name.span, object |-> expr.object,
         fields |-> it.instances[instance].fields,
         methods |-> it.classes[it.instances[instance].class].methods,
         ok |-> r.ok, res |-> IF r.ok THEN r.val ELSE r.err])]

\* History: a property write with the heap before and after it.
SetEvent(it, instance, expr, value, after) ==
    Record(after,
        [type |-> "set", instance |-> instance, name |-> expr.name.lexeme,
         value |-> value, object |-> expr.object,
         instances_before |-> it.instances, classes_before |-> it.classes,
         instances_after |-> after.instances, classes_after |-> after.classes])

\* History: a call of a class with the heap before it and what it gave.
NewEvent(it, cls, r) ==
    [r EXCEPT !.it = Record(@,
        [type |-> "new", class |-> cls, instances_before |-> it.instances,
         instances_after |-> r.it.instances, res |-> r.val])]

\* Call for Clock.
Clock_call(it) == LoxOk(it, NumVal(Rat(it.now, 1000)))

-----------------------------------------------------------------------------
(* Statements and expressions (interpreter/stmt.rs, interpreter/expr.rs)   *)

push_scope(it) ==
    LET n == Env_new(it, it.env) IN [n.it EXCEPT !.env = n.env]

pop_scope(it) == [it EXCEPT !.env = it.envs[it.env].parent]

RECURSIVE Visit(_, _, _, _, _), ClassMethodsMap(_, _, _),
          DefineParams(_, _, _, _)
\* `for statement in statements.iter()` with its early return on Err.
ExecStatements(it, statements) ==
    IF statements = <<>> THEN LoxOk(it, NilVal)
    ELSE LET r == Visit("Execute", it, Head(statements), <<>>, <<>>)
         IN  IF ~r.ok THEN r ELSE Visit("ExecStatements", r.it, Tail(statements), <<>>, <<>>)

\* A block that pops its scope only when its statements complete.
exec_block_leaky(it, statements) ==
    LET r == Visit("ExecStatements", push_scope(it), statements, <<>>, <<>>)
    IN  IF r.ok THEN [r EXCEPT !.it = pop_scope(r.it)] ELSE r

exec_block(it, statements) ==
    LET r == Visit("ExecStatements", push_scope(it), statements, <<>>, <<>>)
    IN  [r EXCEPT !.it = pop_scope(r.it)]

exec_block_with_env(it, statements, env) ==
    LET prev_env == it.env
        r == Visit("ExecStatements", [it EXCEPT !.env = env], statements, <<>>, <<>>)
    IN  [r EXCEPT !.it.env = prev_env]

WhileLoop(it, stmt) ==
    LET c == Visit("Evaluate", it, stmt.condition, <<>>, <<>>)
    IN  IF ~c.ok THEN c
        ELSE IF ~is_truthy(c.val) THEN LoxOk(c.it, NilVal)
        ELSE LET b == Visit("Execute", c.it, stmt.body, <<>>, <<>>)
             IN  IF ~b.ok THEN b ELSE Visit("WhileLoop", b.it, stmt, <<>>, <<>>)

\* The `for method in methods` loop of Stmt::Class.
ClassMethodsMap(it, methods, map) ==
    IF methods = <<>> THEN [it |-> it, map |-> map]
    ELSE LET m == Head(methods)
             f == NewFunction(it, m.name, m.params, m.body, it.env)
         IN  ClassMethodsMap(f.it, Tail(methods),
                             Insert(map, m.name.lexeme, f.fun))

\* History: a statement that was executed, with the number of events
\* recorded before it began, the current environment before and after it,
\* and what it gave.
StmtEvent(it, stmt, r) ==
    [r EXCEPT !.it = Record(@,
        [type |-> "exec", kind |-> stmt.kind, start |-> Len(it.events),
         env_before |-> it.env, env_after |-> r.it.env,
         ok |-> r.ok, err |-> IF r.ok THEN <<>> ELSE <<r.err>>])]

Execute(it0, stmt) ==
    LET it == [it0 EXCEPT !.steps = @ + 1]
    IN
    IF it0.steps >= MaxSteps THEN LoxErr(it0, "StepLimit", Span_new)
    ELSE StmtEvent(it, stmt,
    CASE stmt.kind = "Print" ->
            LET v == Visit("Evaluate", it, stmt.expr, <<>>, <<>>)
            IN  IF ~v.ok THEN v
                ELSE LoxOk(Record([v.it EXCEPT !.out =
                                        Append(@, Display(v.it, v.val))],
                                  [type |-> "print",
                                   line |-> Display(v.it, v.val)]),
                           NilVal)
      [] stmt.kind = "Return" ->
            LET v == IF stmt.expr # <<>> THEN Visit("Evaluate", it, stmt.expr[1], <<>>, <<>>)
                     ELSE LoxOk(it, NilVal)
            IN  IF ~v.ok THEN v ELSE ReturnErr(v.it, v.val)
      [] stmt.kind = "If" ->
            LET c == Visit("Evaluate", it, stmt.condition, <<>>, <<>>)
            IN  IF ~c.ok THEN c
                ELSE IF is_truthy(c.val) THEN Visit("Execute", c.it, stmt.then_branch, <<>>, <<>>)
                ELSE IF stmt.else_branch # <<>>
                THEN Visit("Execute", c.it, stmt.else_branch[1], <<>>, <<>>)
                ELSE LoxOk(c.it, NilVal)
      [] stmt.kind = "While" -> Visit("WhileLoop", it, stmt, <<>>, <<>>)
      [] stmt.kind = "Expression" ->
            LET v == Visit("Evaluate", it, stmt.expr, <<>>, <<>>)
            IN  IF ~v.ok THEN v ELSE LoxOk(v.it, NilVal)
      [] stmt.kind = "Var" ->
            LET v == IF stmt.initializer # <<>>
                     THEN Visit("Evaluate", it, stmt.initializer[1], <<>>, <<>>)
                     ELSE LoxOk(it, NilVal)
            IN  IF ~v.ok THEN v
                ELSE LoxOk(Env_define(v.it, v.it.env, stmt.name.lexeme, v.val),
                           NilVal)
      [] stmt.kind = "Block" -> Visit("exec_block", it, stmt.statements, <<>>, <<>>)
      [] stmt.kind = "Fun" ->
            LET c == capture(it)
                f == NewFunction(c.it, stmt.name, stmt.params, stmt.body,
                                 c.env)
            IN  LoxOk(Record(Env_define(f.it, f.it.env, stmt.name.lexeme,
                                        FunVal(f.fun)),
                             [type |-> "fundecl", fun |-> f.fun,
                              env |-> it.env]),
                      NilVal)
      [] stmt.kind = "Class" ->
            LET it1 == Env_define(it, it.env, stmt.name.lexeme, NilVal)
                m == ClassMethodsMap(it1, stmt.methods, EmptyMap)
                it2 == [m.it EXCEPT !.classes =
                            Append(@, [name |-> stmt.name, methods |-> m.map])]
                a == Env_assign(it2, it2.env, stmt.name,
                                ClassVal(Len(it2.classes)))
            IN  IF ~a.ok THEN a ELSE LoxOk(a.it, NilVal))

lookup(it, name, expr) ==
    IF expr \in DOMAIN it.locals
    THEN AccessEvent(it, expr.kind, name, it.locals[expr],
                     Env_get_at(it, it.env, it.locals[expr], name))
    ELSE Env_get(it, it.globals, name)

Evaluate(it, expr) ==
    CASE expr.kind = "Literal" -> LoxOk(it, expr.value)
      [] expr.kind = "Call" ->
            Visit("visit_call", it, expr.callee, expr.arguments, expr.paren)
      [] expr.kind = "Grouping" -> Visit("Evaluate", it, expr.expr, <<>>, <<>>)
      [] expr.kind = "Unary" -> Visit("visit_unary", it, expr.op, expr.right, <<>>)
      [] expr.kind = "Binary" ->
            Visit("visit_binary", it, expr.op, expr.left, expr.right)
      [] expr.kind = "Logical" ->
            Visit("visit_logical", it, expr.op, expr.left, expr.right)
      [] expr.kind = "Variable" -> lookup(it, expr.name, expr)
      [] expr.kind = "Assignment" ->
            LET v == Visit("Evaluate", it, expr.value, <<>>, <<>>)
            IN  IF ~v.ok THEN v ELSE
                LET a == IF expr \in DOMAIN v.it.locals
                         THEN AccessEvent(v.it, "Assignment", expr.name,
                                v.it.locals[expr],
                                Env_assign_at(v.it, v.it.env,
                                              v.it.locals[expr], expr.name,
                                              v.val))
                         ELSE Env_assign(v.it, v.it.globals, expr.name, v.val)
                IN  IF ~a.ok THEN a ELSE LoxOk(a.it, v.val)
      [] expr.kind = "Get" ->
            LET object == Visit("Evaluate", it, expr.object, <<>>, <<>>)
            IN  IF ~object.ok THEN object
                ELSE IF object.val.tag = "Instance"
                THEN GetEvent(object.it, object.val.id, expr,
                              Instance_get(object.it, object.val.id, expr.name))
                ELSE LoxErr(object.it, "IllegalPropertyAccess", expr.name.span)
      [] expr.kind = "Set" ->
            LET object == Visit("Evaluate", it, expr.object, <<>>, <<>>)
            IN  IF ~object.ok THEN object
                ELSE IF object.val.tag = "Instance"
                THEN LET v == Visit("Evaluate", object.it, expr.value, <<>>, <<>>)
                     IN  IF ~v.ok THEN v
                         ELSE LoxOk(SetEvent(v.it, object.val.id, expr,
                                             v.val,
                                             Instance_set(v.it, object.val.id,
                                                          expr.name, v.val)),
                                    v.val)
                ELSE LoxErr(object.it, "IllegalFieldAccess", expr.name.span)
      [] expr.kind = "This" -> lookup(it, expr.keyword, expr)

\* `for arg in args { evaluated_args.push(self.evaluate(arg)?) }`
EvalArgs(it, args, evaluated_args) ==
    IF args = <<>> THEN LoxOk(it, evaluated_args)
    ELSE LET v == Visit("Evaluate", it, Head(args), <<>>, <<>>)
         IN  IF ~v.ok THEN v
             ELSE Visit("EvalArgs", v.it, Tail(args), Append(evaluated_args, v.val), <<>>)

\* History: the end of a call of a user function, with the current
\* environment before the call and after it, and what the call gave.
CallEndEvent(it, f, r) ==
    [r EXCEPT !.it = Record(@,
        [type |-> "callend", fun |-> f, env_before |-> it.env,
         env_after |-> r.it.env, ok |-> r.ok,
         res |-> IF r.ok THEN r.val ELSE r.err])]

\* A call that checks the callee and the number of argument expressions
\* before it evaluates the arguments.
visit_call_check_first(it, callee_expr, args, token) ==
    LET callee == Visit("Evaluate", it, callee_expr, <<>>, <<>>)
    IN  IF ~callee.ok THEN callee ELSE
    LET arity == CASE callee.val.tag = "Function" ->
                        Len(callee.it.funs[callee.val.id].params)
                   [] OTHER -> 0
    IN  IF callee.val.tag \notin {"NativeFunction", "Function", "Class"}
        THEN LoxErr(callee.it, "NotCallable", token.span)
        ELSE IF Len(args) # arity
        THEN LoxErr(callee.it, "ArityMismatch", token.span)
        ELSE
    LET evaluated == Visit("EvalArgs", callee.it, args, <<>>, <<>>)
    IN  IF ~evaluated.ok THEN evaluated ELSE
        CASE callee.val.tag = "NativeFunction" -> Clock_call(evaluated.it)
          [] callee.val.tag = "Function" ->
                CallEndEvent(evaluated.it, callee.val.id,
                    Visit("LoxFunction_call", evaluated.it, callee.val.id, evaluated.val, <<>>))
          [] callee.val.tag = "Class" ->
                NewEvent(evaluated.it, callee.val.id,
                         Class_call(evaluated.it, callee.val.id))

visit_call(it, callee_expr, args, token) ==
    LET callee == Visit("Evaluate", it, callee_expr, <<>>, <<>>)
    IN  IF ~callee.ok THEN callee ELSE
    LET evaluated == Visit("EvalArgs", callee.it, args, <<>>, <<>>)
    IN  IF ~evaluated.ok THEN evaluated ELSE
    LET it1 == evaluated.it
        arity == CASE callee.val.tag = "NativeFunction" -> 0
                   [] callee.val.tag = "Function" ->
                        Len(it1.funs[callee.val.id].params)
                   [] callee.val.tag = "Class" -> 0
                   [] OTHER -> 0
    IN  IF callee.val.tag \notin {"NativeFunction", "Function", "Class"}
        THEN LoxErr(it1, "NotCallable", token.span)
        ELSE IF Len(args) # arity
        THEN LoxErr(it1, "ArityMismatch", token.span)
        ELSE CASE callee.val.tag = "NativeFunction" -> Clock_call(it1)
               [] callee.val.tag = "Function" ->
                    CallEndEvent(it1, callee.val.id,
                        Visit("LoxFunction_call", it1, callee.val.id, evaluated.val, <<>>))
               [] callee.val.tag = "Class" ->
                    NewEvent(it1, callee.val.id, Class_call(it1, callee.val.id))

\* `for (param, arg) in self.params.iter().zip(args)`
DefineParams(it, env, params, args) ==
    IF params = <<>> \/ args = <<>> THEN it
    ELSE DefineParams(Env_define(it, env, Head(params).lexeme, Head(args)),
                      env, Tail(params), Tail(args))

\* A call that does not catch the return signal of its body.
LoxFunction_call_uncaught(it, f, args) ==
    LET local_scope == Env_new(it, CallFrameParent(it, f))
        it1 == DefineParams(local_scope.it, local_scope.env,
                            it.funs[f].params, args)
        it2 == Record(it1, [type |-> "call", fun |-> f,
                            frame |-> local_scope.env,
                            parent |-> it1.envs[local_scope.env].parent,
                            caller |-> it.env])
    IN  Visit("exec_block_with_env", it2, it.funs[f].body, local_scope.env, <<>>)

LoxFunction_call(it, f, args) ==
    LET local_scope == Env_new(it, CallFrameParent(it, f))
        it1 == DefineParams(local_scope.it, local_scope.env,
                            it.funs[f].params, args)
        it2 == Record(it1, [type |-> "call", fun |-> f,
                            frame |-> local_scope.env,
                            parent |-> it1.envs[local_scope.env].parent,
                            caller |-> it.env])
        r == Visit("exec_block_with_env", it2, it.funs[f].body, local_scope.env, <<>>)
    IN  IF ~r.ok /\ r.err.value = "Return" THEN LoxOk(r.it, r.err.ret)
        ELSE r

visit_unary(it, op, right_expr) ==
    LET right == Visit("Evaluate", it, right_expr, <<>>, <<>>)
    IN  IF ~right.ok THEN right
        ELSE IF op.token_type = "Bang"
        THEN LoxOk(right.it, BoolVal(~is_truthy(right.val)))
        ELSE LET num == assert_num(right.it, right.val, op)
             IN  IF ~num.ok THEN num
                 ELSE LoxOk(right.it, NumVal(RatNeg(num.val.n)))

\* History: a logical expression with the value of its left operand, the
\* value of its right operand when that was evaluated, and what it gave.
LogicalEvent(op, left, right, res) ==
    [res EXCEPT !.it = Record(@,
        [type |-> "logical", op |-> op.token_type, left |-> left,
         right |-> right, res |-> res.val])]

\* A logical expression that evaluates both operands before it chooses.
visit_logical_eager(it, op, left_expr, right_expr) ==
    LET left == Visit("Evaluate", it, left_expr, <<>>, <<>>)
    IN  IF ~left.ok THEN left ELSE
    LET right == Visit("Evaluate", left.it, right_expr, <<>>, <<>>)
    IN  IF ~right.ok THEN right
        ELSE IF op.token_type = "Or" /\ is_truthy(left.val)
        THEN LogicalEvent(op, left.val, <<right.val>>, LoxOk(right.it, left.val))
        ELSE IF op.token_type # "Or" /\ ~is_truthy(left.val)
        THEN LogicalEvent(op, left.val, <<right.val>>, LoxOk(right.it, left.val))
        ELSE LogicalEvent(op, left.val, <<right.val>>, right)

visit_logical(it, op, left_expr, right_expr) ==
    LET left == Visit("Evaluate", it, left_expr, <<>>, <<>>)
    IN  IF ~left.ok THEN left
        ELSE IF op.token_type = "Or" /\ is_truthy(left.val)
        THEN LogicalEvent(op, left.val, <<>>, left)
        ELSE IF op.token_type # "Or" /\ ~is_truthy(left.val)
        THEN LogicalEvent(op, left.val, <<>>, left)
        ELSE LET right == Visit("Evaluate", left.it, right_expr, <<>>, <<>>)
             IN  IF ~right.ok THEN right
                 ELSE LogicalEvent(op, left.val, <<right.val>>, right)

\* The TokenType::Plus arm of visit_binary.
Plus(it, op, l, r) ==
    IF l.tag = "Num" /\ r.tag = "Num"
    THEN LoxOk(it, NumVal(RatAdd(l.n, r.n)))
    ELSE IF l.tag = "Str" /\ r.tag = "Str"
    THEN LoxOk(it, StrVal(l.s \o r.s))
    ELSE LoxErr(it, "MultiTypeError", op.span)

\* History: an application of `+` with its operands, what it gave, and how
\* far the run had come.
PlusEvent(op, l, r, res) ==
    [res EXCEPT !.it = Record(@,
        [type |-> "plus", op |-> op, left |-> l, right |-> r, ok |-> res.ok,
         res |-> IF res.ok THEN res.val ELSE res.err,
         steps |-> res.it.steps, out |-> res.it.out])]

visit_binary(it, op, left_expr, right_expr) ==
    LET left == Visit("Evaluate", it, left_expr, <<>>, <<>>)
    IN  IF ~left.ok THEN left ELSE
    LET right == Visit("Evaluate", left.it, right_expr, <<>>, <<>>)
    IN  IF ~right.ok THEN right ELSE
    LET it1 == right.it
        l == left.val
        r == right.val
        tt == op.token_type
    IN  IF tt = "Plus"
        THEN PlusEvent(op, l, r, Plus(it1, op, l, r))
        ELSE IF tt = "BangEqual" THEN LoxOk(it1, BoolVal(~LoxValue_eq(l, r)))
        ELSE IF tt = "EqualEqual"
        THEN LoxOk(Record(it1, [type |-> "eq", left |-> l, right |-> r,
                                result |-> LoxValue_eq(l, r)]),
                   BoolVal(LoxValue_eq(l, r)))
        ELSE IF l.tag # "Num" THEN LoxErr(it1, "TypeError", op.span)
        ELSE IF r.tag # "Num" THEN LoxErr(it1, "TypeError", op.span)
        ELSE CASE tt = "Minus" -> LoxOk(it1, NumVal(RatSub(l.n, r.n)))
               [] tt = "Star" -> LoxOk(it1, NumVal(RatMul(l.n, r.n)))
               [] tt = "Slash" -> LoxOk(it1, NumVal(RatDiv(l.n, r.n)))
               [] tt = "Greater" -> LoxOk(it1, BoolVal(RatLt(r.n, l.n)))
               [] tt = "GreaterEqual" ->
                    LoxOk(it1, BoolVal(RatLt(r.n, l.n) \/ RatEq(l.n, r.n)))
               [] tt = "Less" -> LoxOk(it1, BoolVal(RatLt(l.n, r.n)))
               [] tt = "LessEqual" ->
                    LoxOk(it1, BoolVal(RatLt(l.n, r.n) \/ RatEq(l.n, r.n)))

Visit(r, it, a, b, c) ==
    CASE r = "Execute" -> Execute(it, a)
      [] r = "ExecStatements" -> ExecStatements(it, a)
      [] r = "exec_block" -> exec_block(it, a)
      [] r = "exec_block_with_env" -> exec_block_with_env(it, a, b)
      [] r = "WhileLoop" -> WhileLoop(it, a)
      [] r = "Evaluate" -> Evaluate(it, a)
      [] r = "visit_call" -> visit_call(it, a, b, c)
      [] r = "EvalArgs" -> EvalArgs(it, a, b)
      [] r = "LoxFunction_call" -> LoxFunction_call(it, a, b)
      [] r = "visit_unary" -> visit_unary(it, a, b)
      [] r = "visit_logical" -> visit_logical(it, a, b, c)
      [] r = "visit_binary" -> visit_binary(it, a, b, c)

-----------------------------------------------------------------------------
(* The programs that are run.                                              *)

ProgArith == Chars("print (1 + 2) * 3 - 4;")

ProgCounter ==
    Chars("fun makeCounter() { var i = 0; fun inc() { i = i + 1; return i; } ")
    \o Chars("return inc; } var c = makeCounter(); print c(); print c(); ")
    \o Chars("print c();")

ProgShowA ==
    Chars("var a = \"global\"; { fun showA() { print a; } showA(); ")
    \o Chars("var a = \"block\"; showA(); }")

ProgCaller ==
    Chars("{ var x = \"decl\"; fun f() { print x; } ")
    \o Chars("{ var x = \"caller\"; f(); } }")

ProgSelfInit == Chars("var a = 1; { var a = a; print a; }")

ProgSelfInitUndefined == Chars("{ var a = a; }")

ProgSelfAssign == Chars("{ var b = (b = 2); }")

ProgUnbracedFun == Chars("{ if (false) fun f() {} print f; }")

ProgTopReturn == Chars("print 1; return 2;")

ProgReturnInBlock == Chars("{ return; }")

ProgLexError == Chars("print 1; @")

ProgParseError == Chars("print 1 +; print 2;")

ProgRuntimeError == Chars("print 1; print -\"a\"; print 2;")

ProgUndefined == Chars("print 1; print y;")

ProgEquality ==
    Chars("fun f() {} class A {} print nil == nil; print 1 == 1; ")
    \o Chars("print \"a\" == \"a\"; print true == true; print clock == clock; ")
    \o Chars("print f == f; print A == A; print 1 == 2; print nil == false;")

ProgInstances ==
    Chars("class A {} var a = A(); var b = A(); print a == b; print a == a;")

ProgMethods ==
    Chars("class A { m(x) { return this.v + x; } } var a = A(); a.v = 1; ")
    \o Chars("var m = a.m; var n = a.m; print m == n; print m == m; ")
    \o Chars("print m(2); print n(2);")

ProgLoop ==
    Chars("var s = 0; for (var i = 0; i < 3; i = i + 1) s = s + i; print s; ")
    \o Chars("while (s > 0) { s = s - 2; } print s; print clock() > 0;")

ProgFields ==
    Chars("class A { m() { return 1; } } var a = A(); var b = A(); ")
    \o Chars("print a.m(); a.m = 2; print a.m; print b.m(); a.m = 3; ")
    \o Chars("print a.m; print a.x; print 9;")

ProgShared ==
    Chars("class A { set(v) { this.x = v; } get() { return this.x; } } ")
    \o Chars("var a = A(); var c = a; var b = A(); a.x = 1; print c.x; ")
    \o Chars("c.set(2); print a.x; print a.get(); b.x = 5; print a.x; ")
    \o Chars("print b.x; var d = A(); print d.x;")

ProgBound ==
    Chars("class A { who() { return this.name; } } var a = A(); ")
    \o Chars("a.name = \"a\"; var b = A(); b.name = \"b\"; var m = a.who; ")
    \o Chars("print m(); a = b; print m(); b.f = m; print b.f(); ")
    \o Chars("print a.who(); print b.f == m;")

ProgPlusMismatch ==
    Chars("fun f(x) { return x + 1; } print f(1); print f(\"a\"); print 2;")

ProgPlusAfterLexError == Chars("print 1 + \"a\"; print 2; @")

ProgLogic ==
    Chars("fun t(x) { print x; return x; } print t(0) or t(1); ")
    \o Chars("print t(nil) or t(\"r\"); print t(\"\") and t(2); ")
    \o Chars("print t(false) and t(3); print nil or false; print 1 and nil;")

ProgFor == Chars("for (var i = 0; i < 3; i = i + 1) print i;")

ProgForOrder ==
    Chars("fun m(s, v) { print s; return v; } var n = 0; ")
    \o Chars("for (m(\"init\", 0); m(\"cond\", n < 2); m(\"incr\", 0)) ")
    \o Chars("{ print \"body\"; n = n + 1; } ")
    \o Chars("fun f() { var k = 0; for (;;) { k = k + 1; ")
    \o Chars("if (k > 2) return k; } } print f(); ")
    \o Chars("for (n = 5; n < 7;) n = n + 1; print n;")

ProgForScope ==
    Chars("var i = \"outer\"; for (var i = 0; i < 2; i = i + 1) print i; ")
    \o Chars("print i; for (var j = 0; j < 1; j = j + 1) print j; print j; ")
    \o Chars("print 9;")

ProgShadow ==
    Chars("{ var x = 1; { var x = 2; { print x; x = 3; } print x; } print x; } ")
    \o Chars("print x;")

ProgWrongFrame ==
    Chars("var b = 1; { var b = (b = 2); print b; } print b; ")
    \o Chars("{ if (false) fun b() {} print b; }")

ProgUnwind ==
    Chars("fun f(n) { { if (n > 0) { while (true) { return n; } } } ")
    \o Chars("print \"no\"; } fun g() { var r = f(1); print r; ")
    \o Chars("return r + 1; print \"never\"; } print g(); print f(0); ")
    \o Chars("fun e() { { { print -\"a\"; } } } { var x = 1; { e(); } } ")
    \o Chars("print \"unreached\";")

ProgStrings == Chars("print \"a\" + \"b\"; print 7 / 2; print !nil or 1;")

FixedPrograms ==
    {ProgArith, ProgCounter, ProgShowA, ProgCaller, ProgSelfInit,
     ProgSelfInitUndefined, ProgSelfAssign, ProgUnbracedFun, ProgTopReturn,
     ProgReturnInBlock, ProgLexError, ProgParseError, ProgRuntimeError,
     ProgUndefined, ProgEquality, ProgInstances, ProgMethods, ProgLoop,
     ProgStrings, ProgFields, ProgShared, ProgPlusMismatch,
     ProgPlusAfterLexError, ProgLogic, ProgFor, ProgForOrder, ProgForScope,
     ProgShadow, ProgWrongFrame, ProgUnwind, ProgBound}

\* A family of programs about one captured variable: a block declares x
\* and three closures over it, then runs a sequence of operations, each
\* an assignment in the block, a call of a closure that assigns, or a
\* print of what the reading closure returns.
MaxOps == 2

ClosureOps == {"assign", "set", "bump", "show"}

OpText(op) ==
    CASE op = "assign" -> Chars("x = 5; ")
      [] op = "set" -> Chars("set(7); ")
      [] op = "bump" -> Chars("bump(); ")
      [] op = "show" -> Chars("print get(); ")

RECURSIVE OpsText(_)
OpsText(ops) ==
    IF ops = <<>> THEN <<>> ELSE OpText(Head(ops)) \o OpsText(Tail(ops))

ClosureProgram(ops) ==
    Chars("{ var x = 0; fun get() { return x; } fun set(v) { x = v; } ")
    \o Chars("fun bump() { x = x + 1; } ") \o OpsText(ops) \o Chars("}")

OpSequences ==
    UNION {[1..n -> ClosureOps] : n \in 0..MaxOps}

\* A family of programs of one expression statement: the variable f
\* followed by a sequence of suffixes, each a call without arguments, a
\* call with one argument or a property.
MaxSuffixes == 2

SuffixOps == {"call", "call1", "get"}

SuffixText(op) ==
    CASE op = "call" -> Chars("()")
      [] op = "call1" -> Chars("(1)")
      [] op = "get" -> Chars(".x")

RECURSIVE SuffixesText(_)
SuffixesText(ops) ==
    IF ops = <<>> THEN <<>>
    ELSE SuffixText(Head(ops)) \o SuffixesText(Tail(ops))

SuffixProgram(ops) == Chars("f") \o SuffixesText(ops) \o Chars(";")

SuffixSequences ==
    UNION {[1..n -> SuffixOps] : n \in 0..MaxSuffixes}

\* A family of programs of one call: the callee is a function of two
\* parameters, a class, the native clock or a number, it is followed by
\* at most MaxArgs arguments, and the callee and each argument go through
\* the function t, which prints what it is given and returns it.
MaxArgs == 3

CalleeKinds == {"fun", "class", "native", "num"}

CalleeText(kind) ==
    CASE kind = "fun" -> Chars("g")
      [] kind = "class" -> Chars("K")
      [] kind = "native" -> Chars("clock")
      [] kind = "num" -> Chars("7")

RECURSIVE ArgsText(_, _)
ArgsText(i, n) ==
    IF i > n THEN <<>>
    ELSE (IF i > 1 THEN Chars(", ") ELSE <<>>)
            \o Chars("t(") \o <<DigitChar(i)>> \o Chars(")")
            \o ArgsText(i + 1, n)

CallProgram(ops) ==
    Chars("fun t(x) { print x; return x; } ")
    \o Chars("fun g(a, b) { print \"body\"; } class K {} ")
    \o Chars("(t(") \o CalleeText(ops[1]) \o Chars("))(")
    \o ArgsText(1, Len(ops) - 1) \o Chars("); print \"after\";")

CallShapes ==
    {<<kind>> \o [i \in 1..n |-> "arg"] :
        kind \in CalleeKinds, n \in 0..MaxArgs}

Inputs ==
    {[family |-> "fixed", ops |-> <<>>, text |-> t] : t \in FixedPrograms}
    \cup {[family |-> "call", ops |-> o, text |-> CallProgram(o)] :
            o \in CallShapes}
    \cup {[family |-> "closure", ops |-> o, text |-> ClosureProgram(o)] :
            o \in OpSequences}
    \cup {[family |-> "suffix", ops |-> o, text |-> SuffixProgram(o)] :
            o \in SuffixSequences}

\* The readings of the clock, in milliseconds.
ClockReadings == {1500}

-----------------------------------------------------------------------------
(* The driver: Loxide::run_file and Loxide::run (main.rs).  main.rs scans  *)
(* with tokenizer.rs and parses with parser.rs; the resolver and the       *)
(* interpreter it calls are modelled by interpreter/resolver.rs, stmt.rs   *)
(* and expr.rs.                                                            *)

Diagnostics(stage, errors) ==
    [i \in 1..Len(errors) |->
        [stage |-> stage, value |-> errors[i].value, span |-> errors[i].span]]

Init ==
    /\ input \in Inputs
    /\ source = input.text
    /\ now \in ClockReadings
    /\ pc = "scan"
    /\ scanner = Scanner_new
    /\ tokens = <<>>
    /\ static_error = FALSE
    /\ runtime_error = FALSE
    /\ stderr = <<>>
    /\ stdout = <<>>
    /\ ast = <<>>
    /\ interp = <<>>
    /\ next_stmt = 1
    /\ panicked = FALSE
    /\ exit_code = <<>>
    /\ parse_result = <<>>
    /\ polls = 0

\* One Scanner::next of `scanner.by_ref().collect()`.
ScanToken ==
    /\ pc = "scan"
    /\ \E r \in {Scanner_next(source, scanner)} :
           /\ scanner' = r.sc
           /\ tokens' = IF r.item = <<>> THEN tokens
                        ELSE Append(tokens, r.item[1])
           /\ pc' = IF r.item = <<>> THEN "scanned" ELSE "scan"
    /\ UNCHANGED <<polls, input, source,
                   now, static_error, runtime_error, stderr,
                   stdout, ast, interp, next_stmt, panicked, exit_code,
                   parse_result>>

\* `for error in scanner.errors { self.static_error = true; ... }`
ReportScanErrors ==
    /\ pc = "scanned"
    /\ static_error' = (static_error \/ scanner.errors # <<>>)
    /\ stderr' = stderr \o Diagnostics("Lexer", scanner.errors)
    /\ pc' = "parse"
    /\ UNCHANGED <<polls, input, source,
                   now, scanner, tokens, runtime_error, stdout,
                   ast, interp, next_stmt, panicked, exit_code, parse_result>>

\* `let parsed = parser.parse()` and the match on it.
match_parsed(parsed) ==
    IF parsed.ok
    THEN /\ ast' = parsed.ast
         /\ pc' = "resolve"
         /\ UNCHANGED <<static_error, stderr>>
    ELSE /\ static_error' = TRUE
         /\ stderr' = stderr \o Diagnostics("Parser", parsed.diags)
         /\ pc' = "exit"
         /\ UNCHANGED ast

Parse ==
    /\ pc = "parse"
    /\ match_parsed(LegacyParser_parse(tokens))
    /\ UNCHANGED <<polls, input, source,
                   now, scanner, tokens, runtime_error, stdout,
                   interp, next_stmt, panicked, exit_code, parse_result>>

\* `resolver.resolve_ast(&ast)` and `Interpreter::new(resolver.locals)`.
Resolve ==
    /\ pc = "resolve"
    /\ LET resolver == Resolver_visit_ast(ast)
       IN  /\ stderr' = stderr \o Diagnostics("Resolver", resolver.diags)
           /\ interp' = <<Interpreter_new(resolver.locals, now)>>
    /\ pc' = "interpret"
    /\ UNCHANGED <<polls, input, source,
                   now, scanner, tokens, static_error,
                   runtime_error, stdout, ast, next_stmt, panicked, exit_code,
                   parse_result>>

\* One turn of the loop of Interpreter::interpret, and, when the statement
\* fails, the Err arm of the match in run.
interpret_step(r) ==
    /\ interp' = <<r.it>>
    /\ stdout' = r.it.out
    /\ IF r.ok
       THEN /\ next_stmt' = next_stmt + 1
            /\ UNCHANGED <<pc, runtime_error, stderr, panicked>>
       ELSE IF r.err.value = "StepLimit"
       THEN /\ pc' = "cut"
            /\ UNCHANGED <<next_stmt, runtime_error, stderr, panicked>>
       ELSE IF r.err.value = "PANIC"
       THEN /\ pc' = "exit"
            /\ panicked' = TRUE
            /\ UNCHANGED <<next_stmt, runtime_error, stderr>>
       ELSE /\ pc' = "exit"
            /\ runtime_error' = TRUE
            /\ panicked' = (r.err.value = "Return")
            /\ stderr' = IF r.err.value = "Return" THEN stderr
                         ELSE stderr \o Diagnostics("Runtime", <<r.err>>)
            /\ UNCHANGED next_stmt

ExecuteStatement ==
    /\ pc = "interpret"
    /\ next_stmt <= Len(ast)
    /\ interpret_step(Visit("Execute", interp[1], ast[next_stmt], <<>>, <<>>))
    /\ UNCHANGED <<polls, input, source,
                   now, scanner, tokens, static_error, ast,
                   exit_code, parse_result>>

\* interpret returns Ok(Nil): `Ok(lit) => println!("{lit}")`.
InterpretDone ==
    /\ pc = "interpret"
    /\ next_stmt > Len(ast)
    /\ stdout' = Append(stdout, Display(interp[1], NilVal))
    /\ pc' = "exit"
    /\ UNCHANGED <<polls, input, source,
                   now, scanner, tokens, static_error,
                   runtime_error, stderr, ast, interp, next_stmt, panicked,
                   exit_code, parse_result>>

\* The end of run_file, or the abort of a panicking process.
Exit ==
    /\ pc = "exit"
    /\ exit_code' = <<IF panicked THEN 101
                      ELSE IF static_error THEN 65
                      ELSE IF runtime_error THEN 70
                      ELSE 0>>
    /\ pc' = "done"
    /\ UNCHANGED <<polls, input, source,
                   now, scanner, tokens, static_error,
                   runtime_error, stderr, stdout, ast, interp, next_stmt,
                   panicked, parse_result>>

Next ==
    \/ ScanToken
    \/ ReportScanErrors
    \/ Parse
    \/ Resolve
    \/ ExecuteStatement
    \/ InterpretDone
    \/ Exit

Spec == Init /\ [][Next]_vars

\* syntax/parser.rs: Parser::parse over the tokens of the scanner.
SyntaxParse ==
    /\ pc = "scanned"
    /\ parse_result' = <<Parser_parse(tokens)>>
    /\ pc' = "parsed"
    /\ UNCHANGED <<polls, input, source,
                   now, scanner, tokens, static_error,
                   runtime_error, stderr, stdout, ast, interp, next_stmt,
                   panicked, exit_code>>

NextParser ==
    \/ ScanToken
    \/ SyntaxParse

SpecParser == Init /\ [][NextParser]_vars

\* The sources the scanner is run on by itself: every sequence of at most
\* MaxSourceLen characters of LexAlphabet, which has a letter, a digit, the
\* dot, the quote, the slash, the equals sign, a blank, a newline and a
\* character of two bytes that no token starts with; and some longer
\* sources, with characters of two and three bytes in comments and in
\* strings, a string over two lines, numbers next to dots, a character no
\* token starts with and a string that is not terminated.
MaxSourceLen == 3

LexAlphabet == {"a", "1", ".", "\"", "/", "=", " ", "\n", "U+00E9"}

LexSamples ==
    {Chars("// ") \o <<"U+00E9">> \o Chars("\n1.5 a"),
     Chars("\"a") \o <<"U+20AC", "U+00E9">> \o Chars("\" == a1"),
     Chars("a = \"b\n c\" / 2 // x"),
     Chars("1. .5 1.5."),
     Chars("var x_1 = (a <= b) >= !c;"),
     Chars("_x = a_1 + __;"),
     Chars("print a != b; @ \"") \o <<"U+00E9">> \o Chars("\" // ")
        \o <<"U+00E9">> \o Chars("\n ") \o <<"U+00E9">> \o Chars(" \"open")}

LexInputs ==
    {[ops |-> <<>>, family |-> "lexical", text |-> t] :
        t \in UNION {[1..n -> LexAlphabet] : n \in 0..MaxSourceLen}
                \cup LexSamples}

\* The calls of Scanner::next a caller makes after the first None.
MaxPolls == 2

\* Before the source is handed to Scanner::new.
InitScanner ==
    /\ input = [ops |-> <<>>, family |-> "lexical", text |-> <<>>]
    /\ source = <<>>
    /\ now = 0
    /\ pc = "source"
    /\ scanner = Scanner_new
    /\ tokens = <<>>
    /\ static_error = FALSE
    /\ runtime_error = FALSE
    /\ stderr = <<>>
    /\ stdout = <<>>
    /\ ast = <<>>
    /\ interp = <<>>
    /\ next_stmt = 1
    /\ panicked = FALSE
    /\ exit_code = <<>>
    /\ parse_result = <<>>
    /\ polls = 0

\* Source::new and Scanner::new on one of the sources.
NewSource ==
    /\ pc = "source"
    /\ input' \in LexInputs
    /\ source' = input'.text
    /\ scanner' = Scanner_new
    /\ pc' = "scan"
    /\ UNCHANGED <<polls, now, tokens, static_error, runtime_error, stderr,
                   stdout, ast, interp, next_stmt, panicked, exit_code,
                   parse_result>>

\* One more Scanner::next on a scanner that has returned None.
ScannerPoll ==
    /\ pc = "scanned"
    /\ polls < MaxPolls
    /\ LET r == Scanner_next(source, scanner)
       IN  /\ scanner' = r.sc
           /\ tokens' = IF r.item = <<>> THEN tokens
                        ELSE Append(tokens, r.item[1])
    /\ polls' = polls + 1
    /\ UNCHANGED <<input, source, now, pc, static_error, runtime_error,
                   stderr, stdout, ast, interp, next_stmt, panicked,
                   exit_code, parse_result>>

NextScanner ==
    \/ NewSource
    \/ ScanToken
    \/ ScannerPoll

\* The scanner by itself.  The caller of the iterator keeps calling next
\* until it returns None, so a ScanToken that can be taken is taken.
SpecScanner ==
    InitScanner /\ [][NextScanner]_vars
        /\ WF_vars(NewSource) /\ WF_vars(ScanToken)

\* The parser by itself, one turn of the loop of parse() at a time, on the
\* tokens the scanner yields for every sequence of at most MaxTokens
\* lexemes of ParseAlphabet and for some longer ones.  parse_result holds
\* the statements and the parser while the loop runs, and what parse()
\* returned after it.
MaxTokens == 3

ParseAlphabet == {"print", "var", "x", "1", "=", "+", ";", "(", ")", "{"}

ParseSamples ==
    {<<"print", "1", "+", "print", "1", ";", "var", "x", ";">>,
     <<"print", "(", "1", "1", "var", "x", "=", "1", ";">>,
     <<"var", "=", "1", "1", ";", "print", "x", ";">>,
     <<"{", "x", "=", "+", ";", "print", "1", ";", "}", "x", ";">>,
     <<"x", "(", "1", ")", "(", "1", ")", ";", "x", ";">>,
     <<"print", "1", ";", ")", ")", "x", "+">>,
     <<")", "print", "1", ";", "var", "x">>}

RECURSIVE JoinLexemes(_)
JoinLexemes(lexemes) ==
    IF lexemes = <<>> THEN <<>>
    ELSE Chars(Head(lexemes)) \o <<" ">> \o JoinLexemes(Tail(lexemes))

TokenInputs ==
    {[ops |-> l, family |-> "tokens", text |-> JoinLexemes(l)] :
        l \in UNION {[1..n -> ParseAlphabet] : n \in 0..MaxTokens}
                \cup ParseSamples}

\* Before the source is handed to the scanner.
InitParseLoop ==
    /\ input = [ops |-> <<>>, family |-> "tokens", text |-> <<>>]
    /\ source = <<>>
    /\ now = 0
    /\ pc = "source"
    /\ scanner = Scanner_new
    /\ tokens = <<>>
    /\ static_error = FALSE
    /\ runtime_error = FALSE
    /\ stderr = <<>>
    /\ stdout = <<>>
    /\ ast = <<>>
    /\ interp = <<>>
    /\ next_stmt = 1
    /\ panicked = FALSE
    /\ exit_code = <<>>
    /\ parse_result = <<>>
    /\ polls = 0

\* The scanner run to its end on one of the sources.
ScanSource ==
    /\ pc = "source"
    /\ input' \in TokenInputs
    /\ source' = input'.text
    /\ \E r \in {ScanAll(input'.text)} :
            scanner' = r.sc /\ tokens' = r.tokens
    /\ pc' = "scanned"
    /\ UNCHANGED <<polls, now, static_error, runtime_error, stderr,
                   stdout, ast, interp, next_stmt, panicked, exit_code,
                   parse_result>>

\* Parser::new and `let mut statements = Vec::new()`.
ParseBegin ==
    /\ pc = "scanned"
    /\ parse_result' = <<[statements |-> <<>>, p |-> Parser_new]>>
    /\ pc' = "parsing"
    /\ UNCHANGED <<polls, input, source, now, scanner, tokens, static_error,
                   runtime_error, stderr, stdout, ast, interp, next_stmt,
                   panicked, exit_code>>

\* One turn of `while !self.finished()`.
ParseIteration ==
    /\ pc = "parsing"
    /\ ~Parser_finished(tokens, parse_result[1].p)
    /\ parse_result' =
            <<ParseTurn(tokens, parse_result[1].statements,
                        Rule("declaration", tokens, parse_result[1].p, <<>>))>>
    /\ UNCHANGED <<polls, input, source, now, pc, scanner, tokens,
                   static_error, runtime_error, stderr, stdout, ast, interp,
                   next_stmt, panicked, exit_code>>

\* The loop has ended: parse() returns.
ParseReturn ==
    /\ pc = "parsing"
    /\ Parser_finished(tokens, parse_result[1].p)
    /\ parse_result' = <<ParseResult(parse_result[1])>>
    /\ pc' = "parsed"
    /\ UNCHANGED <<polls, input, source, now, scanner, tokens, static_error,
                   runtime_error, stderr, stdout, ast, interp, next_stmt,
                   panicked, exit_code>>

NextParseLoop ==
    \/ ScanSource
    \/ ParseBegin
    \/ ParseIteration
    \/ ParseReturn

SpecParseLoop == InitParseLoop /\ [][NextParseLoop]_vars

\* The environments by themselves: an interpreter whose scopes are pushed
\* and popped, in whose current frame names are defined, and on whose
\* current frame assign is called, for names that the current frame, an
\* ancestor, several frames of the chain, a frame off the chain or no frame
\* binds.
MaxFrames == 4

EnvNames == {"a", "b"}

NameToken(n) ==
    [token_type |-> "Identifier", lexeme |-> Chars(n), span |-> Span_new]

\* Interpreter::new, before any statement.
InitEnv ==
    /\ input = [ops |-> <<>>, family |-> "env", text |-> <<>>]
    /\ source = <<>>
    /\ now = 0
    /\ pc = "env"
    /\ scanner = Scanner_new
    /\ tokens = <<>>
    /\ static_error = FALSE
    /\ runtime_error = FALSE
    /\ stderr = <<>>
    /\ stdout = <<>>
    /\ ast = <<>>
    /\ interp = <<Interpreter_new(EmptyMap, 0)>>
    /\ next_stmt = 1
    /\ panicked = FALSE
    /\ exit_code = <<>>
    /\ parse_result = <<>>
    /\ polls = 0

EnvPush ==
    /\ pc = "env"
    /\ Len(interp[1].envs) < MaxFrames
    /\ interp' = <<push_scope(interp[1])>>
    /\ UNCHANGED <<input, source, now, pc, scanner, tokens, static_error,
                   runtime_error, stderr, stdout, ast, next_stmt, panicked,
                   exit_code, parse_result, polls>>

EnvPop ==
    /\ pc = "env"
    /\ interp[1].env # interp[1].globals
    /\ interp' = <<pop_scope(interp[1])>>
    /\ UNCHANGED <<input, source, now, pc, scanner, tokens, static_error,
                   runtime_error, stderr, stdout, ast, next_stmt, panicked,
                   exit_code, parse_result, polls>>

\* self.env.define(name, value), with the number of the frame as value.
EnvDefine ==
    /\ pc = "env"
    /\ \E n \in EnvNames :
            interp' = <<Env_define(interp[1], interp[1].env, Chars(n),
                                   NumVal(Rat(interp[1].env, 1)))>>
    /\ UNCHANGED <<input, source, now, pc, scanner, tokens, static_error,
                   runtime_error, stderr, stdout, ast, next_stmt, panicked,
                   exit_code, parse_result, polls>>

\* self.env.assign(name, value), once the frames are built; the history
\* keeps the frames before and after it and what it returned.
EnvAssign ==
    /\ pc = "env"
    /\ pc' = "assigned"
    /\ \E n \in EnvNames :
        \E r \in {Env_assign(interp[1], interp[1].env, NameToken(n),
                              StrVal(Chars("new")))} :
            interp' = <<Record(r.it,
                [type |-> "assign", name |-> Chars(n),
                 value |-> StrVal(Chars("new")), from |-> interp[1].env,
                 envs_before |-> interp[1].envs, envs_after |-> r.it.envs,
                 ok |-> r.ok, res |-> IF r.ok THEN r.val ELSE r.err])>>
    /\ UNCHANGED <<input, source, now, scanner, tokens, static_error,
                   runtime_error, stderr, stdout, ast, next_stmt, panicked,
                   exit_code, parse_result, polls>>

NextEnv ==
    \/ EnvPush
    \/ EnvPop
    \/ EnvDefine
    \/ EnvAssign

SpecEnv == InitEnv /\ [][NextEnv]_vars

-----------------------------------------------------------------------------
(* Properties.  Events is the history of the interpreter of this run; Out  *)
(* is what its print statements have written.                              *)

Events == IF interp = <<>> THEN <<>> ELSE interp[1].events

Out == IF interp = <<>> THEN <<>> ELSE interp[1].out

EventsOf(type) == {i \in DOMAIN Events : Events[i].type = type}

Line(str) == Chars(str)

\* C1: every access of a Variable, Assignment or This expression that has
\* a distance d in the resolver table finds, exactly d parent links above
\* the current environment, a frame whose own bindings contain the name.
C1_ResolvedFrameDefinesName ==
    \A i \in EventsOf("access") : Events[i].name \in Events[i].own

\* What a program of the closure family has to print: x starts at 0, the
\* block assigns 5, set(7) assigns 7, bump() adds one, and each show prints
\* the value the reading closure returns.
RECURSIVE RefOutput(_, _)
RefOutput(ops, x) ==
    IF ops = <<>> THEN <<>>
    ELSE CASE Head(ops) = "assign" -> RefOutput(Tail(ops), 5)
           [] Head(ops) = "set" -> RefOutput(Tail(ops), 7)
           [] Head(ops) = "bump" -> RefOutput(Tail(ops), x + 1)
           [] Head(ops) = "show" -> <<NatDigits(x)>> \o RefOutput(Tail(ops), x)

\* C2: an assignment to a captured variable, made by the function itself,
\* by another closure over the same environment or by the declaring block,
\* is seen by the next call of the function; the inc function returned by
\* makeCounter yields 1, 2, 3.
C2_ClosureSeesAssignments ==
    pc = "done" =>
        /\ input.family = "closure" => Out = RefOutput(input.ops, 0)
        /\ input.text = ProgCounter => Out = <<Line("1"), Line("2"), Line("3")>>

\* C2 witness: set(7) through one closure, then the reading closure
\* returns 7.
C2_Witness ==
    /\ pc = "done"
    /\ input.family = "closure"
    /\ input.ops = <<"set", "show">>
    /\ Out = <<Line("7")>>

\* C3: the parent of the frame of a call is the environment that was
\* current when the Fun statement of the function was executed, whatever
\* the environment of the caller; showA keeps printing the global a after
\* the block declares its own a, and f prints the x of its declaration, not
\* the x of its caller.
C3_CallFrameUnderDeclarationEnv ==
    /\ \A i \in EventsOf("fundecl") : \A j \in EventsOf("call") :
            Events[j].fun = Events[i].fun => Events[j].parent = Events[i].env
    /\ pc = "done" /\ input.text = ProgShowA
            => Out = <<Line("global"), Line("global")>>
    /\ pc = "done" /\ input.text = ProgCaller => Out = <<Line("decl")>>

\* C3 witness: a function called from an environment other than the one of
\* its declaration.
C3_Witness ==
    \E i \in EventsOf("fundecl") : \E j \in EventsOf("call") :
        /\ Events[j].fun = Events[i].fun
        /\ Events[j].caller # Events[i].env
        /\ Events[j].parent = Events[i].env

\* The diagnostics of the scanner, the parser and the resolver, and those
\* of the interpreter, among what was written to standard error.
StaticDiagnostics ==
    {i \in DOMAIN stderr : stderr[i].stage \in {"Lexer", "Parser", "Resolver"}}

RuntimeDiagnostics == {i \in DOMAIN stderr : stderr[i].stage = "Runtime"}

\* C4: for a program that passes the parser and the resolver, the Return
\* signal never leaves the loop of interpret: the driver never receives it
\* as the error of the run, where displaying it is unreachable code.
C4_ReturnNeverEscapes ==
    StaticDiagnostics = {} => ~(runtime_error /\ panicked)

\* C5: when the scanner, the parser or the resolver reported a diagnostic,
\* the interpreter executes no statement.
C5_NoExecutionAfterDiagnostic ==
    StaticDiagnostics # {} => (interp = <<>> \/ interp[1].steps = 0)

\* C6: the exit code is 65 exactly when a lexical, syntactic or resolution
\* error was reported; otherwise 70 exactly when a runtime error occurred;
\* otherwise 0.
C6_ExitCode ==
    pc = "done" =>
        exit_code = <<IF StaticDiagnostics # {} THEN 65
                      ELSE IF RuntimeDiagnostics # {} THEN 70
                      ELSE 0>>

\* C7: Parser::parse of syntax/parser.rs returns an AST exactly when it
\* emitted no diagnostic.
C7_AstIffNoDiagnostic ==
    parse_result # <<>> =>
        (parse_result[1].ok <=> parse_result[1].diags = <<>>)

IsPrint(e) == e.type = "print"

PrintedLines ==
    [i \in 1..Len(SelectSeq(Events, IsPrint)) |->
        SelectSeq(Events, IsPrint)[i].line]

\* C8: after a run without error, standard output holds one line for each
\* print statement executed, in order, and nothing else; the program
\* `print (1 + 2) * 3 - 4;` writes the single line 5.
C8_StdoutIsPrintedLines ==
    pc = "done" /\ stderr = <<>> /\ ~panicked =>
        /\ stdout = PrintedLines
        /\ input.text = ProgArith => stdout = <<Line("5")>>

\* The kinds of value C9 speaks of; of the numbers, the integers.
ComparableKind(v) ==
    /\ v.tag \in {"Nil", "Bool", "Num", "Str", "NativeFunction", "Function",
                  "Class", "Instance"}
    /\ v.tag = "Num" => v.n.den = 1

\* C9: `v == v` is true for every kind of value, and two instances are
\* equal exactly when they are the same record.
C9_EqualityReflexive ==
    \A i \in EventsOf("eq") :
        /\ ComparableKind(Events[i].left) /\ Events[i].left = Events[i].right
                => Events[i].result
        /\ Events[i].left.tag = "Instance" /\ Events[i].right.tag = "Instance"
                => (Events[i].result <=> Events[i].left.id = Events[i].right.id)

\* The frame a bound method carries: it defines `this`, and nothing else,
\* as the instance, and hangs under the environment of the method.
ThisFrame(it, b) ==
    /\ it.envs[it.funs[b.fun].env].bindings
            = Insert(EmptyMap, Chars("this"), InstanceVal(b.instance))
    /\ it.envs[it.funs[b.fun].env].parent = it.funs[b.method].env
    /\ it.funs[b.fun].body = it.funs[b.method].body
    /\ it.funs[b.fun].params = it.funs[b.method].params

\* C10: two reads of the same method on the same instance give two
\* distinct function values, each with its own fresh frame that defines
\* `this`, and calls of both give the same result: m == n prints false,
\* m(2) and n(2) both print 3.
C10_MethodReadsAreDistinct ==
    /\ \A i \in EventsOf("bind") :
            /\ ThisFrame(interp[1], Events[i])
            /\ \A j \in EventsOf("bind") :
                    i # j =>
                        /\ Events[i].fun # Events[j].fun
                        /\ interp[1].funs[Events[i].fun].env
                               # interp[1].funs[Events[j].fun].env
    /\ \A i \in EventsOf("eq") :
            /\ Events[i].left.tag = "Function"
            /\ Events[i].right.tag = "Function"
            /\ \E j, k \in EventsOf("bind") :
                    /\ j # k
                    /\ Events[j].fun = Events[i].left.id
                    /\ Events[k].fun = Events[i].right.id
            => ~Events[i].result
    /\ pc = "done" /\ input.text = ProgMethods
            => Out = <<Line("false"), Line("true"), Line("3"), Line("3")>>

\* C10 witness: the same method read twice on one instance, the two values
\* compared, and both called.
C10_Witness ==
    /\ pc = "done"
    /\ input.text = ProgMethods
    /\ \E i, j \in EventsOf("bind") :
            /\ i < j
            /\ Events[i].instance = Events[j].instance
            /\ Events[i].name = Events[j].name
            /\ \E e \in EventsOf("eq") :
                    /\ Events[e].left = FunVal(Events[i].fun)
                    /\ Events[e].right = FunVal(Events[j].fun)
            /\ \E c, d \in EventsOf("call") :
                    /\ Events[c].fun = Events[i].fun
                    /\ Events[d].fun = Events[j].fun

\* The instance of a get or set event, as the heap held it before.
FieldsBefore(e) == e.instances_before[e.instance].fields

\* C11: a property read gives the field when the instance has one of that
\* name, even when the class has a method of that name; otherwise the
\* method of the class bound to the instance; otherwise the
\* undefined-property error.  A property write inserts or overwrites one
\* entry of the fields of that instance, and changes no class and no other
\* instance.
C11_FieldsBeforeMethods ==
    /\ \A i \in EventsOf("get") :
          LET e == Events[i] IN
            IF e.name \in DOMAIN e.fields
            THEN e.ok /\ e.res = e.fields[e.name]
            ELSE IF e.name \in DOMAIN e.methods
            THEN /\ e.ok /\ e.res.tag = "Function"
                 /\ i > 1 /\ Events[i - 1].type = "bind"
                 /\ Events[i - 1].fun = e.res.id
                 /\ Events[i - 1].instance = e.instance
                 /\ Events[i - 1].method = e.methods[e.name]
                 /\ ThisFrame(interp[1], Events[i - 1])
            ELSE ~e.ok /\ e.res = [value |-> "UndefinedProperty",
                                   span |-> e.span]
    /\ \A i \in EventsOf("set") :
          LET e == Events[i] IN
            /\ e.classes_after = e.classes_before
            /\ DOMAIN e.instances_after = DOMAIN e.instances_before
            /\ \A j \in DOMAIN e.instances_before :
                    j # e.instance
                        => e.instances_after[j] = e.instances_before[j]
            /\ e.instances_after[e.instance].class
                    = e.instances_before[e.instance].class
            /\ DOMAIN e.instances_after[e.instance].fields
                    = DOMAIN FieldsBefore(e) \cup {e.name}
            /\ \A k \in DOMAIN e.instances_after[e.instance].fields :
                    e.instances_after[e.instance].fields[k]
                        = IF k = e.name THEN e.value ELSE FieldsBefore(e)[k]
    /\ pc = "done" /\ input.text = ProgFields
            => /\ Out = <<Line("1"), Line("2"), Line("1"), Line("3")>>
               /\ \E i \in DOMAIN stderr :
                        stderr[i].value = "UndefinedProperty"

\* C11 witness: a read of a name that is both a field of the instance and
\* a method of its class, a read of a method, a failed read and an
\* overwriting write have all happened.
C11_Witness ==
    /\ \E i \in EventsOf("get") :
            Events[i].name \in DOMAIN Events[i].fields
                               \cap DOMAIN Events[i].methods
    /\ \E i \in EventsOf("get") :
            Events[i].name \notin DOMAIN Events[i].fields
            /\ Events[i].name \in DOMAIN Events[i].methods
    /\ \E i \in EventsOf("get") : ~Events[i].ok
    /\ \E i \in EventsOf("set") : Events[i].name \in DOMAIN FieldsBefore(Events[i])

\* The writes of field `name` of instance n before event i.
WritesBefore(i, n, name) ==
    {j \in EventsOf("set") :
        j < i /\ Events[j].instance = n /\ Events[j].name = name}

\* The last write in a set of writes that is not empty.
LastWrite(S) == CHOOSE j \in S : \A k \in S : k <= j

\* The names written before event i.
NamesWrittenBefore(i) == {Events[j].name : j \in {k \in EventsOf("set") : k < i}}

\* C12: every call of a class gives an instance that was not there before
\* and has no fields, and leaves the instances there were alone.  A read of
\* a field of an instance, through whatever variable or `this`, sees the
\* last value written to that field of that instance through whatever
\* variable or `this`, and sees no field that was written to another
\* instance only.
C12_InstancesAreShared ==
    /\ \A i \in EventsOf("new") :
          LET e == Events[i] IN
            /\ e.res.tag = "Instance"
            /\ e.res.id \notin DOMAIN e.instances_before
            /\ DOMAIN e.instances_after = DOMAIN e.instances_before \cup {e.res.id}
            /\ e.instances_after[e.res.id] = [class |-> e.class,
                                              fields |-> EmptyMap]
            /\ \A j \in DOMAIN e.instances_before :
                    e.instances_after[j] = e.instances_before[j]
    /\ \A i \in EventsOf("get") :
          LET e == Events[i] IN
            /\ DOMAIN e.fields
                    = {k \in NamesWrittenBefore(i) :
                            WritesBefore(i, e.instance, k) # {}}
            /\ \A k \in DOMAIN e.fields :
                    e.fields[k]
                        = Events[LastWrite(WritesBefore(i, e.instance, k))].value
    /\ pc = "done" /\ input.text = ProgShared
            => /\ Out = <<Line("1"), Line("2"), Line("2"), Line("2"), Line("5")>>
               /\ \E i \in DOMAIN stderr :
                        stderr[i].value = "UndefinedProperty"

\* C12 witness: a field written through `this` has been read through a
\* variable, a field written through one variable has been read through
\* another variable, and a read of an instance has failed to see a field
\* that another instance of the same class has.
C12_Witness ==
    /\ \E i \in EventsOf("get") :
            /\ Events[i].object.kind = "Variable"
            /\ WritesBefore(i, Events[i].instance, Events[i].name) # {}
            /\ Events[LastWrite(WritesBefore(i, Events[i].instance,
                                             Events[i].name))].object.kind
                    = "This"
    /\ \E i \in EventsOf("get") :
            /\ Events[i].object.kind = "Variable"
            /\ WritesBefore(i, Events[i].instance, Events[i].name) # {}
            /\ LET w == Events[LastWrite(WritesBefore(i, Events[i].instance,
                                                      Events[i].name))]
               IN  /\ w.object.kind = "Variable"
                   /\ w.object.name.lexeme # Events[i].object.name.lexeme
    /\ \E i \in EventsOf("get"), j \in EventsOf("set") :
            /\ j < i /\ ~Events[i].ok
            /\ Events[j].name = Events[i].name
            /\ Events[j].instance # Events[i].instance
            /\ interp[1].instances[Events[j].instance].class
                    = interp[1].instances[Events[i].instance].class

\* The operands of an application of `+` are neither two numbers nor two
\* strings.
Mismatched(e) ==
    ~(e.left.tag = "Num" /\ e.right.tag = "Num")
    /\ ~(e.left.tag = "Str" /\ e.right.tag = "Str")

Falsy(v) == v.tag = "Nil" \/ (v.tag = "Bool" /\ v.b = FALSE)

\* C14: `a or b` evaluates b exactly when a is falsy and `a and b`
\* evaluates b exactly when a is truthy; the expression gives the value of
\* the last operand evaluated, as it is; only nil and false are falsy, so
\* that 0 and the empty string are truthy.
C14_ShortCircuit ==
    /\ \A i \in EventsOf("logical") :
          LET e == Events[i] IN
            /\ e.op \in {"Or", "And"}
            /\ e.op = "Or" => (e.right # <<>> <=> Falsy(e.left))
            /\ e.op = "And" => (e.right # <<>> <=> ~Falsy(e.left))
            /\ e.res = IF e.right # <<>> THEN e.right[1] ELSE e.left
    /\ pc = "done" /\ input.text = ProgLogic
            => Out = <<Line("0"), Line("0"),
                       Line("nil"), Line("r"), Line("r"),
                       Line(""), Line("2"), Line("2"),
                       Line("false"), Line("false"),
                       Line("false"), Line("nil")>>

\* C14 witness: `or` has given the number 0 and has given its right
\* operand, `and` has given its right operand after an empty string and
\* has given a falsy left operand.
C14_Witness ==
    /\ \E i \in EventsOf("logical") :
            /\ Events[i].op = "Or" /\ Events[i].right = <<>>
            /\ Events[i].res = NumVal(Rat(0, 1))
    /\ \E i \in EventsOf("logical") :
            Events[i].op = "Or" /\ Events[i].right # <<>>
    /\ \E i \in EventsOf("logical") :
            /\ Events[i].op = "And" /\ Events[i].right # <<>>
            /\ Events[i].left = StrVal(<<>>)
    /\ \E i \in EventsOf("logical") :
            Events[i].op = "And" /\ Events[i].right = <<>>

\* C15: a for statement runs its initializer once and then repeats the
\* condition (true when omitted), the body and the increment, in that
\* order, until the condition is falsy; the variable of the initializer
\* shadows an outer variable inside the loop only and is not defined after
\* the loop; `for (var i = 0; i < 3; i = i + 1) print i;` prints 0, 1, 2.
C15_ForIsWhile ==
    /\ pc = "done" /\ input.text = ProgFor
            => Out = <<Line("0"), Line("1"), Line("2")>> /\ stderr = <<>>
    /\ pc = "done" /\ input.text = ProgForOrder
            => /\ Out = <<Line("init"),
                          Line("cond"), Line("body"), Line("incr"),
                          Line("cond"), Line("body"), Line("incr"),
                          Line("cond"), Line("3"), Line("7")>>
               /\ stderr = <<>>
    /\ pc = "done" /\ input.text = ProgForScope
            => /\ Out = <<Line("0"), Line("1"), Line("outer"), Line("0")>>
               /\ Len(stderr) = 1
               /\ stderr[1].stage = "Runtime"
               /\ stderr[1].value = "UndeclaredVar"
               /\ Slice(source, stderr[1].span) = Chars("j")

\* C15 witness: the run of a program with a for statement has ended after
\* the loop printed.
C15_Witness ==
    /\ pc = "done"
    /\ input.text \in {ProgFor, ProgForOrder, ProgForScope}
    /\ Len(Out) >= 3

\* The resolver after it resolved the program of this run.
ResolvedAst == Resolver_visit_ast(ast)

\* The scopes of v, counted from the innermost as 0, that have the name.
ScopesWithName(v) ==
    {d \in 0..(Len(v.scopes) - 1) :
        v.name \in DOMAIN v.scopes[Len(v.scopes) - d]}

\* C16: after the resolver resolved the program, the distance table has an
\* entry for an expression exactly when the expression is a Variable, an
\* Assignment or a This whose name was in some scope of the resolver when
\* it was resolved, and the entry is the index of the nearest such scope,
\* the innermost being 0; a name that is in no scope (a global) has no
\* entry, and no other kind of expression has one.
C16_DistanceTable ==
    pc = "interpret" /\ next_stmt = 1 =>
        /\ interp[1].locals = ResolvedAst.locals
        /\ \A i \in DOMAIN ResolvedAst.resolved :
              LET v == ResolvedAst.resolved[i] IN
                /\ v.expr.kind \in {"Variable", "Assignment", "This"}
                /\ IF ScopesWithName(v) = {}
                   THEN v.expr \notin DOMAIN interp[1].locals
                   ELSE /\ v.expr \in DOMAIN interp[1].locals
                        /\ interp[1].locals[v.expr] \in ScopesWithName(v)
                        /\ \A d \in ScopesWithName(v) :
                                interp[1].locals[v.expr] <= d
        /\ \A e \in DOMAIN interp[1].locals :
                \E i \in DOMAIN ResolvedAst.resolved :
                    ResolvedAst.resolved[i].expr = e

\* C16 witness: the resolver has resolved a name that two of its scopes
\* had, an assignment to a name that only a scope further out had, and a
\* name that no scope had.
C16_Witness ==
    /\ pc = "interpret" /\ next_stmt = 1
    /\ \E i \in DOMAIN ResolvedAst.resolved :
            Cardinality(ScopesWithName(ResolvedAst.resolved[i])) >= 2
    /\ \E i \in DOMAIN ResolvedAst.resolved :
            /\ ResolvedAst.resolved[i].expr.kind = "Assignment"
            /\ 0 \notin ScopesWithName(ResolvedAst.resolved[i])
            /\ ScopesWithName(ResolvedAst.resolved[i]) # {}
    /\ \E i \in DOMAIN ResolvedAst.resolved :
            ScopesWithName(ResolvedAst.resolved[i]) = {}

\* The number of bytes of the UTF-8 encoding of a sequence of characters.
RECURSIVE ByteLen(_)
ByteLen(txt) ==
    IF txt = <<>> THEN 0
    ELSE (IF Head(txt) = "U+00E9" THEN 2
          ELSE IF Head(txt) = "U+20AC" THEN 3 ELSE 1) + ByteLen(Tail(txt))

\* The Eof tokens among the tokens yielded so far.
EofTokens == {i \in DOMAIN tokens : tokens[i].token_type = "Eof"}

\* C17: the token stream of the scanner is finite: the scanner comes to
\* return None; it yields exactly one Eof token, as the last token, with a
\* span of length 0 at the byte length of the input; and every next after
\* that yields nothing.
C17_OneEofAtEnd ==
    /\ <>(pc = "scanned")
    /\ [](~scanner.finished => EofTokens = {})
    /\ [](scanner.finished =>
            /\ EofTokens = {Len(tokens)}
            /\ tokens[Len(tokens)].span = [offset |-> ByteLen(source),
                                           len |-> 0]
            /\ tokens[Len(tokens)].lexeme = <<>>)
    /\ [][scanner.finished => tokens' = tokens /\ scanner'.finished]_vars

\* C17 witness: next has been called again after the scanner returned None
\* for a source that has a token and a character of two bytes.
C17_Witness ==
    /\ polls = MaxPolls
    /\ Len(tokens) >= 2
    /\ ByteLen(source) > Len(source)

\* The bytes of the UTF-8 encoding of a sequence of characters, each byte
\* written as the character it belongs to and its place in the character.
RECURSIVE Bytes(_)
Bytes(txt) ==
    IF txt = <<>> THEN <<>>
    ELSE [k \in 1..ByteLen(<<Head(txt)>>) |-> <<Head(txt), k>>]
            \o Bytes(Tail(txt))

\* C18: whatever the input, with characters of several bytes in strings and
\* comments and with lexical errors, the spans of the tokens yielded lie
\* inside the source, each token starts after the one before it and not
\* before that one ends, and the lexeme of a token is the bytes of the
\* source its span covers.
C18_SpansAndLexemes ==
    /\ \A i \in DOMAIN tokens :
            /\ tokens[i].span.offset >= 0 /\ tokens[i].span.len >= 0
            /\ tokens[i].span.offset + tokens[i].span.len <= ByteLen(source)
            /\ Bytes(tokens[i].lexeme)
                    = SubSeq(Bytes(source), tokens[i].span.offset + 1,
                             tokens[i].span.offset + tokens[i].span.len)
    /\ \A i \in 1..(Len(tokens) - 1) :
            /\ tokens[i].span.offset < tokens[i + 1].span.offset
            /\ tokens[i].span.offset + tokens[i].span.len
                    <= tokens[i + 1].span.offset

\* C18 witness: the scanner has finished a source that has characters of
\* two bytes in a string, in a comment and where no token starts, after it
\* reported lexical errors and yielded tokens on both sides of them.
C18_Witness ==
    /\ pc = "scanned" /\ input.family = "lexical"
    /\ Len(scanner.errors) >= 3
    /\ \E i \in DOMAIN tokens :
            /\ tokens[i].token_type = "String"
            /\ \E k \in DOMAIN tokens[i].lexeme :
                    tokens[i].lexeme[k] = "U+00E9"
            /\ \E e \in DOMAIN scanner.errors :
                    scanner.errors[e].span.offset < tokens[i].span.offset
            /\ \E e \in DOMAIN scanner.errors :
                    scanner.errors[e].span.offset > tokens[i].span.offset

\* The lexemes of a sequence of tokens joined with single spaces.
RECURSIVE Render(_)
Render(toks) ==
    IF toks = <<>> THEN <<>>
    ELSE IF Len(toks) = 1 THEN toks[1].lexeme
    ELSE toks[1].lexeme \o <<" ">> \o Render(Tail(toks))

\* The (token kind, lexeme) pairs of a sequence of tokens.
Pairs(toks) ==
    [i \in DOMAIN toks |-> <<toks[i].token_type, toks[i].lexeme>>]

\* C19: for a source that the scanner has lexed without an error, lexing
\* the lexemes of its tokens joined with single spaces gives no error and
\* the same sequence of (token kind, lexeme) pairs.
C19_RenderRoundTrip ==
    pc = "scanned" /\ scanner.errors = <<>> =>
        /\ ScanAll(Render(tokens)).sc.errors = <<>>
        /\ Pairs(ScanAll(Render(tokens)).tokens) = Pairs(tokens)

\* C19 witness: the scanner has lexed, without an error, a source with a
\* comment and a string over two lines, whose rendering is another text.
C19_Witness ==
    /\ pc = "scanned" /\ scanner.errors = <<>>
    /\ input.family = "lexical"
    /\ \E i \in DOMAIN tokens :
            /\ tokens[i].token_type = "String"
            /\ \E k \in DOMAIN tokens[i].lexeme : tokens[i].lexeme[k] = "\n"
    /\ \E i \in DOMAIN tokens : tokens[i].token_type = "Slash"
    /\ \E k \in 1..(Len(source) - 1) : source[k] = "/" /\ source[k + 1] = "/"
    /\ Render(tokens) # source

\* The shape of an expression made of calls and property reads.
RECURSIVE Shape(_)
Shape(e) ==
    CASE e.kind = "Call" -> <<"Call", Shape(e.callee), Len(e.arguments)>>
      [] e.kind = "Get" -> <<"Get", Shape(e.object), e.name.lexeme>>
      [] e.kind = "Variable" -> <<"Variable", e.name.lexeme>>
      [] OTHER -> <<e.kind>>

\* The shape a sequence of suffixes builds on `base`, from left to right.
RECURSIVE SuffixShape(_, _)
SuffixShape(base, ops) ==
    IF ops = <<>> THEN base
    ELSE SuffixShape(CASE Head(ops) = "call" -> <<"Call", base, 0>>
                       [] Head(ops) = "call1" -> <<"Call", base, 1>>
                       [] Head(ops) = "get" -> <<"Get", base, Chars("x")>>,
                     Tail(ops))

\* C20: the parser accepts any sequence of call suffixes and property
\* suffixes after a primary expression, without a diagnostic, and builds
\* the expression from left to right; `f()()` and `f(1)(2)` are calls of
\* the result of a call.
C20_CallSuffixes ==
    parse_result # <<>> /\ input.family = "suffix" =>
        /\ parse_result[1].diags = <<>>
        /\ parse_result[1].ok
        /\ Len(parse_result[1].ast) = 1
        /\ parse_result[1].ast[1].kind = "Expression"
        /\ Shape(parse_result[1].ast[1].expr)
                = SuffixShape(<<"Variable", Chars("f")>>, input.ops)

\* The source with every character that lies in the span of a reported
\* lexical error replaced by as many blanks as it has bytes.
RECURSIVE Blanked(_, _, _)
Blanked(src, errs, i) ==
    IF i > Len(src) THEN <<>>
    ELSE (IF \E e \in DOMAIN errs :
                /\ ByteOffsets(src)[i] >= errs[e].span.offset
                /\ ByteOffsets(src)[i] < Span_end(errs[e].span)
          THEN [k \in 1..len_utf8(src[i]) |-> " "]
          ELSE <<src[i]>>) \o Blanked(src, errs, i + 1)

\* The characters a token or a skipped text can start with.
TokenStarts ==
    DOMAIN SingleCharTokens \cup Alpha \cup Digit
        \cup {"!", "=", "<", ">", " ", "\n", "\r", "\t", "/", "\""}

\* C21: a lexical error does not stop the scanner.  When the scanner has
\* returned None: its error state is set exactly when an error was
\* reported; the errors are reported in the order of the source, over
\* disjoint texts; an unexpected character is one character no token starts
\* with; an unterminated string is reported once, as the last error, from
\* its opening quote to the end of the source, and no String token is
\* yielded for it; every String token is closed by a quote; the last token
\* is Eof; and the tokens are the tokens, with the same spans, of the
\* source in which the offending texts are blanked out, which lexes without
\* an error.
C21_LexErrorsDoNotStop ==
    pc = "scanned" =>
        LET errs == scanner.errors
            clean == ScanAll(Blanked(source, errs, 1))
            open == {e \in DOMAIN errs : errs[e].value = "UnterminatedString"}
        IN  /\ scanner.had_error = (errs # <<>>)
            /\ tokens # <<>> /\ tokens[Len(tokens)].token_type = "Eof"
            /\ clean.sc.errors = <<>>
            /\ clean.tokens = tokens
            /\ \A e \in 1..(Len(errs) - 1) :
                    Span_end(errs[e].span) <= errs[e + 1].span.offset
            /\ Cardinality(open) <= 1
            /\ \A e \in open :
                    LET text == Slice(source, errs[e].span)
                    IN  /\ e = Len(errs)
                        /\ Span_end(errs[e].span) = ByteLen(source)
                        /\ text # <<>> /\ text[1] = "\""
                        /\ \A k \in 2..Len(text) : text[k] # "\""
                        /\ \A i \in DOMAIN tokens :
                                Span_end(tokens[i].span) > errs[e].span.offset
                                    => tokens[i].token_type = "Eof"
            /\ \A e \in DOMAIN errs \ open :
                    /\ errs[e].value = "UnexpectedToken"
                    /\ Len(Slice(source, errs[e].span)) = 1
                    /\ Slice(source, errs[e].span)[1] \notin TokenStarts
            /\ \A i \in DOMAIN tokens :
                    tokens[i].token_type = "String" =>
                        /\ Len(tokens[i].lexeme) >= 2
                        /\ tokens[i].lexeme[1] = "\""
                        /\ tokens[i].lexeme[Len(tokens[i].lexeme)] = "\""

\* C21 witness: the scanner has returned None for a source in which an
\* unexpected character stands between two tokens and a string is left
\* open after a closed one; both errors are reported.
C21_Witness ==
    /\ pc = "scanned" /\ input.family = "lexical"
    /\ scanner.had_error
    /\ Len(scanner.errors) >= 2
    /\ scanner.errors[Len(scanner.errors)].value = "UnterminatedString"
    /\ \E e \in DOMAIN scanner.errors :
            /\ scanner.errors[e].value = "UnexpectedToken"
            /\ \E i \in 1..(Len(tokens) - 1) :
                    /\ Span_end(tokens[i].span) <= scanner.errors[e].span.offset
                    /\ tokens[i + 1].span.offset
                            >= Span_end(scanner.errors[e].span)
                    /\ tokens[i + 1].token_type = "String"
    /\ tokens[Len(tokens)].token_type = "Eof"

\* C22: get_at and assign_at touch only the frame that lies exactly `dist`
\* parent links above the starting frame.  Every access through the
\* resolver table that succeeds found the name bound in that frame; a read
\* gives the value bound there; and an assignment modifies no other frame.
C22_ExactFrameOnly ==
    \A i \in EventsOf("access") :
        /\ Events[i].ok => Events[i].found # <<>>
        /\ Events[i].ok /\ Events[i].kind # "Assignment"
                => Events[i].found = <<Events[i].res>>
        /\ Events[i].changed \subseteq {Events[i].frame}

\* C23: executing a statement or calling a function leaves the current
\* environment where it was.  Every statement that was executed, whether it
\* completed, raised a runtime error or signalled a return, ended with the
\* current environment on the frame it began with; so did every call of a
\* user function; and between the statements of interpret and when it has
\* returned, the current environment is the global frame.
C23_EnvRestored ==
    /\ interp # <<>> => interp[1].env = interp[1].globals
    /\ \A i \in EventsOf("exec") : Events[i].env_after = Events[i].env_before
    /\ \A i \in EventsOf("callend") :
            Events[i].env_after = Events[i].env_before

\* C23 witness: interpret has returned a runtime error that was raised two
\* blocks deep in a function called two blocks deep, after a call returned
\* from inside a loop in nested blocks and another completed normally.
C23_Witness ==
    /\ pc = "done" /\ runtime_error
    /\ \E i \in EventsOf("exec") :
            /\ Events[i].kind = "Block" /\ ~Events[i].ok
            /\ Events[i].err[1].value = "TypeError"
            /\ Events[i].env_before # interp[1].globals
    /\ \E i \in EventsOf("exec") :
            /\ Events[i].kind = "While" /\ ~Events[i].ok
            /\ Events[i].err[1].value = "Return"
            /\ Events[i].env_before # interp[1].globals
    /\ \E i \in EventsOf("callend") :
            ~Events[i].ok /\ Events[i].env_before # interp[1].globals
    /\ \E i \in EventsOf("callend") :
            Events[i].ok /\ Events[i].res = NilVal

\* The number of calls of user functions that are under way at each event:
\* the calls begun before it less the calls ended before it.
Levels ==
    [k \in DOMAIN Events |->
        Cardinality({i \in EventsOf("call") : i < k})
            - Cardinality({i \in EventsOf("callend") : i < k})]

\* The statements of the body of the call that ended at event j, the
\* statements nested in them included, those of its callees not: the
\* statements executed since the call began while no deeper call was under
\* way.
CallOf(j) ==
    CHOOSE i \in EventsOf("call") :
        /\ i < j /\ Levels[i] + 1 = Levels[j]
        /\ \A h \in EventsOf("call") :
                h < j /\ Levels[h] + 1 = Levels[j] => h <= i

BodyOf(j) ==
    {k \in EventsOf("exec") : CallOf(j) < k /\ k < j /\ Levels[k] = Levels[j]}

Signals(k, return) ==
    /\ ~Events[k].ok
    /\ Events[k].err[1].value # "StepLimit"
    /\ (Events[k].err[1].value = "Return") = return

\* C24: what a call of a user function gives.  When a Return statement of
\* its body signalled, however deep in blocks, ifs and loops, the call gives
\* the value that statement carried, it is the only Return statement of
\* the body that was executed, and every statement of the body that ended
\* after it had begun before it; when the body completed the call gives
\* nil; when a statement of the body raised a runtime error the call gives
\* that error, with its span.  And a statement only signals a return when a
\* Return statement of the same call was executed in it, not one of a
\* callee.
C24_CallYieldsReturn ==
    /\ \A j \in EventsOf("callend") :
        Events[j].ok \/ Events[j].res.value # "StepLimit" =>
        LET body == BodyOf(j)
            rets == {k \in body : Events[k].kind = "Return" /\ Signals(k, TRUE)}
            errs == {k \in body : Signals(k, FALSE)}
        IN  /\ Events[CallOf(j)].fun = Events[j].fun
            /\ rets # {} =>
                /\ Cardinality(rets) = 1
                /\ errs = {}
                /\ Events[j].ok
                /\ \A k \in rets :
                        /\ Events[j].res = Events[k].err[1].ret
                        /\ \A m \in body :
                                m > k => Events[m].start <= Events[k].start
            /\ rets = {} /\ errs = {} =>
                    Events[j].ok /\ Events[j].res = NilVal
            /\ errs # {} =>
                /\ rets = {}
                /\ ~Events[j].ok
                /\ \A k \in errs :
                        (\A m \in errs : k <= m)
                            => Events[j].res = Events[k].err[1]
    /\ \A m \in EventsOf("exec") :
            Signals(m, TRUE) =>
                \E k \in EventsOf("exec") :
                    /\ k <= m /\ Levels[k] = Levels[m]
                    /\ Events[k].start >= Events[m].start
                    /\ Events[k].kind = "Return" /\ Signals(k, TRUE)

\* C24 witness: a run in which a call returned the value of a return that
\* stands in a loop in an if in a block, with a statement after the block
\* left out; its caller went on, printed the value and returned another;
\* a call completed without a return; and a call gave the runtime error of
\* its body.
C24_Witness ==
    /\ pc = "done"
    /\ \E j \in EventsOf("callend") :
            /\ Events[j].ok /\ Events[j].res = NumVal(Rat(1, 1))
            /\ \E k \in BodyOf(j) :
                    Events[k].kind = "While" /\ Signals(k, TRUE)
            /\ Levels[j] = 2
    /\ \E j \in EventsOf("callend") :
            /\ Events[j].ok /\ Events[j].res = NumVal(Rat(2, 1))
            /\ \E k \in BodyOf(j) : Events[k].kind = "Print" /\ Events[k].ok
    /\ \E j \in EventsOf("callend") :
            /\ Events[j].ok /\ Events[j].res = NilVal
            /\ \A k \in BodyOf(j) : Events[k].ok
            /\ BodyOf(j) # {}
    /\ \E j \in EventsOf("callend") :
            ~Events[j].ok /\ Events[j].res.value = "TypeError"
    /\ Out = <<Chars("1"), Chars("2"), Chars("no"), Chars("nil")>>

\* What the callee of a program of the call family is displayed as.
CalleeLine(kind) ==
    CASE kind = "fun" -> Line("<function g>")
      [] kind = "class" -> Line("K")
      [] kind = "native" -> Line("<native fn: clock>")
      [] kind = "num" -> Line("7")

\* The number of arguments the callee of a program of the call family
\* takes; none for what cannot be called.
CalleeArity(kind) == IF kind = "fun" THEN 2 ELSE 0

\* C25: a call evaluates its callee, then its arguments from left to right,
\* and only then checks that the callee can be called and takes that many
\* arguments.  A program of the call family prints the callee, then every
\* argument in order, whatever the callee is and however many arguments
\* it takes; then, when the callee can be called with them, the body of the
\* function runs and the program goes on; otherwise the run ends with the
\* runtime error NotCallable for a number and ArityMismatch for the others,
\* and neither the body nor the next statement runs.
C25_CallOrder ==
    pc = "done" /\ input.family = "call" =>
        LET kind == input.ops[1]
            n == Len(input.ops) - 1
            evaluated == <<CalleeLine(kind)>> \o [i \in 1..n |-> <<DigitChar(i)>>]
        IN  IF kind # "num" /\ n = CalleeArity(kind)
            THEN /\ Out = evaluated
                        \o (IF kind = "fun" THEN <<Line("body")>> ELSE <<>>)
                        \o <<Line("after")>>
                 /\ ~runtime_error /\ stderr = <<>>
            ELSE /\ Out = evaluated
                 /\ runtime_error
                 /\ Len(stderr) = 1 /\ stderr[1].stage = "Runtime"
                 /\ stderr[1].value = IF kind = "num" THEN "NotCallable"
                                      ELSE "ArityMismatch"
                 /\ \A j \in EventsOf("call") :
                        interp[1].funs[Events[j].fun].name.lexeme = Chars("t")

\* C25 witness: a function of two parameters called with three arguments
\* has ended in ArityMismatch after the callee and the three arguments
\* were printed.
C25_Witness ==
    /\ pc = "done" /\ input.family = "call"
    /\ input.ops = <<"fun", "arg", "arg", "arg">>
    /\ Out = <<Line("<function g>"), Line("1"), Line("2"), Line("3")>>
    /\ runtime_error
    /\ stderr[1].value = "ArityMismatch"

\* The frames of the chain that starts at frame e, nearest first.
RECURSIVE ChainOf(_, _)
ChainOf(envs, e) ==
    IF e = 0 THEN <<>> ELSE <<e>> \o ChainOf(envs, envs[e].parent)

\* C26: assign overwrites the binding of the name in the nearest frame of
\* the chain that has one, starting at the current frame, and nothing else:
\* every other binding of every frame is as before; when no frame of the
\* chain binds the name, assign returns the undeclared-variable error and
\* the frames are as before, so no binding is created.
C26_AssignNearest ==
    \A i \in EventsOf("assign") :
        LET ev == Events[i]
            chain == ChainOf(ev.envs_before, ev.from)
            holders == {k \in DOMAIN chain :
                            ev.name \in DOMAIN ev.envs_before[chain[k]].bindings}
        IN  IF holders = {}
            THEN /\ ~ev.ok
                 /\ ev.res.value = "UndeclaredVar"
                 /\ ev.envs_after = ev.envs_before
            ELSE /\ ev.ok
                 /\ \A k \in holders :
                        (\A h \in holders : k <= h) =>
                            ev.envs_after =
                                [ev.envs_before EXCEPT
                                    ![chain[k]].bindings[ev.name] = ev.value]

\* C26 witness: an assign from a frame that does not bind the name, whose
\* parent and grandparent both bind it and bind another name as well, has
\* overwritten the parent's binding, while a frame off the chain binds the
\* name too.
C26_Witness ==
    /\ pc = "assigned"
    /\ \E i \in EventsOf("assign") :
            LET ev == Events[i]
                chain == ChainOf(ev.envs_before, ev.from)
            IN  /\ Len(chain) = 3 /\ ev.ok
                /\ ev.name \notin DOMAIN ev.envs_before[chain[1]].bindings
                /\ ev.name \in DOMAIN ev.envs_before[chain[2]].bindings
                /\ ev.name \in DOMAIN ev.envs_before[chain[3]].bindings
                /\ Cardinality(DOMAIN ev.envs_before[chain[2]].bindings) = 2
                /\ ev.envs_after[chain[2]].bindings[ev.name] = ev.value
                /\ ev.envs_after[chain[3]].bindings[ev.name] # ev.value
                /\ \E e \in DOMAIN ev.envs_before :
                        /\ \A k \in DOMAIN chain : chain[k] # e
                        /\ ev.name \in DOMAIN ev.envs_before[e].bindings

\* The synchronizations of the parse so far.
Recoveries ==
    IF parse_result = <<>> THEN <<>>
    ELSE IF pc = "parsing" THEN parse_result[1].p.recoveries
    ELSE parse_result[1].recoveries

\* The keywords that begin a declaration or a statement.
StatementKeywords ==
    {"Class", "Fun", "Var", "For", "If", "While", "Print", "Return"}

\* The first token after position `at` whose kind is in `kinds`, as a set.
FirstOf(at, kinds) ==
    {k \in (at + 1)..Len(tokens) :
        /\ tokens[k].token_type \in kinds
        /\ \A h \in (at + 1)..(k - 1) : tokens[h].token_type \notin kinds}

\* C27: a synchronization that begins with `at` tokens consumed discards
\* the tokens up to and including the first `;` after them, or up to but
\* not including the first keyword that begins a statement, whichever
\* comes first: it never discards such a keyword, not even when it is the
\* token the error was found at; with neither a `;` nor a keyword ahead it
\* discards the rest of the tokens.
C27_SynchronizeStops ==
    \A i \in DOMAIN Recoveries :
        LET at == Recoveries[i].at
            to == Recoveries[i].to
            semi == FirstOf(at, {"Semicolon"})
            key == FirstOf(at, StatementKeywords)
        IN  /\ \A k \in (at + 1)..to :
                    tokens[k].token_type \notin StatementKeywords
            /\ \A k \in key :
                    (\A h \in semi : k < h) => to = k - 1
            /\ \A h \in semi :
                    (\A k \in key : h < k) => to = h
            /\ semi = {} /\ key = {} => to >= Len(tokens) - 1

\* The number of tokens the parser has consumed.
ParserPos ==
    IF parse_result = <<>> THEN 0
    ELSE IF pc = "parsing" THEN parse_result[1].p.pos
    ELSE parse_result[1].pos

\* The turns the loop of parse() has made.
ParserTurns ==
    IF parse_result = <<>> THEN 0
    ELSE IF pc = "parsing"
    THEN Len(parse_result[1].statements) + Len(parse_result[1].p.recoveries)
    ELSE Len(parse_result[1].ast) + Len(parse_result[1].recoveries)

\* C30: parse terminates on every token sequence the scanner yields, well
\* formed or not.  Every turn of its loop, whether it pushes a statement or
\* reports an error and synchronizes, consumes at least one token and
\* never more than there are; so the loop never makes more turns than
\* there are tokens, and when parse has returned no token but the Eof is
\* left.
C30_ParseTerminates ==
    /\ [][pc = "parsing" /\ pc' = "parsing" =>
            /\ ParserPos' > ParserPos
            /\ ParserTurns' = ParserTurns + 1]_vars
    /\ [](ParserTurns <= ParserPos /\ ParserPos <= Len(tokens))
    /\ [](pc = "parsed" => ParserPos >= Len(tokens) - 1)

\* C30 witness: parse has returned after a first turn that failed without
\* consuming a token, whose synchronization discarded that one token, a
\* turn that pushed a statement, and a last turn whose synchronization
\* consumed the Eof.
C30_Witness ==
    /\ pc = "parsed"
    /\ Len(parse_result[1].ast) >= 1
    /\ Len(Recoveries) >= 2
    /\ Recoveries[1].at = 0 /\ Recoveries[1].to = 1
    /\ ParserPos = Len(tokens)

\* The characters an identifier or a keyword is made of, and those it may
\* begin with.
IdentChars == Alpha \cup Digit \cup {"_"}

IdentStarts == Alpha \cup {"_"}

\* The maximal runs i..j of identifier characters of the source that begin
\* with a letter or `_`.
IdentRuns ==
    {r \in (1..Len(source)) \X (1..Len(source)) :
        /\ r[1] <= r[2]
        /\ source[r[1]] \in IdentStarts
        /\ r[1] > 1 => source[r[1] - 1] \notin IdentChars
        /\ \A k \in r[1]..r[2] : source[k] \in IdentChars
        /\ r[2] < Len(source) => source[r[2] + 1] \notin IdentChars}

\* C28: in a source without strings and comments, every maximal run of
\* ASCII letters, digits and `_` that begins with a letter or `_` is
\* scanned as one token over exactly that run, of the keyword's kind when
\* the run is a keyword and Identifier otherwise, and no lexical error is
\* reported within it: `_x` is one Identifier token.
C28_IdentifierRun ==
    (/\ pc = "scanned" /\ input.family = "lexical"
     /\ \A k \in DOMAIN source : source[k] \notin {"\"", "/"})
    => \A r \in IdentRuns :
        LET span == [offset |-> ByteLen(SubSeq(source, 1, r[1] - 1)),
                     len |-> r[2] - r[1] + 1]
            lexeme == SubSeq(source, r[1], r[2])
        IN  /\ \E t \in DOMAIN tokens :
                    /\ tokens[t].span = span
                    /\ tokens[t].lexeme = lexeme
                    /\ tokens[t].token_type = ident_type(lexeme)
            /\ \A e \in DOMAIN scanner.errors :
                    \/ Span_end(scanner.errors[e].span) <= span.offset
                    \/ Span_end(span) <= scanner.errors[e].span.offset

\* The frame of `this` that the function of bind event b carries.
BoundFrame(b) == interp[1].funs[Events[b].fun].env

\* C29: the function a method read gives has `this` bound to the instance
\* that was read, from the read on.  Whenever that function is called,
\* from a variable, after the variable that held the instance has been
\* reassigned, or from a field of another instance, the frame of the call
\* hangs under the frame made at the read, and every `this` the body
\* evaluates is found in that frame and is the instance that was read; no
\* `this` is found anywhere else.
C29_BoundAtRead ==
    /\ \A b \in EventsOf("bind") :
            /\ Chars("this") \in DOMAIN interp[1].envs[BoundFrame(b)].bindings
            /\ interp[1].envs[BoundFrame(b)].bindings[Chars("this")]
                   = InstanceVal(Events[b].instance)
            /\ \A c \in EventsOf("call") :
                    Events[c].fun = Events[b].fun
                        => c > b /\ Events[c].parent = BoundFrame(b)
    /\ \A x \in EventsOf("access") :
            Events[x].kind = "This" /\ Events[x].ok =>
                \E b \in EventsOf("bind") :
                    /\ b < x
                    /\ Events[x].frame = BoundFrame(b)
                    /\ Events[x].res = InstanceVal(Events[b].instance)
                    /\ \E c \in EventsOf("call") :
                            /\ c < x
                            /\ Events[c].fun = Events[b].fun
                            /\ Events[c].frame \in
                                    {e \in DOMAIN interp[1].envs :
                                        \E k \in 1..Len(ChainOf(interp[1].envs, Events[x].from)) :
                                            ChainOf(interp[1].envs, Events[x].from)[k] = e}
    /\ pc = "done" /\ input.text = ProgBound
            => Out = <<Line("a"), Line("a"), Line("a"), Line("b"),
                       Line("true")>>

\* C29 witness: one method value, read from the instance the variable a
\* held, has been called three times: from the variable it was stored in,
\* again after a was assigned the other instance, and from a field of that
\* other instance; the same read through a then binds the other instance.
C29_Witness ==
    /\ pc = "done"
    /\ input.text = ProgBound
    /\ \E b, b2 \in EventsOf("bind") :
        \E c1, c2, c3 \in EventsOf("call") :
        \E st \in EventsOf("set") :
            /\ b < c1 /\ c1 < c2 /\ c2 < st /\ st < c3 /\ c3 < b2
            /\ Events[c1].fun = Events[b].fun
            /\ Events[c2].fun = Events[b].fun
            /\ Events[c3].fun = Events[b].fun
            /\ Events[st].value = FunVal(Events[b].fun)
            /\ Events[st].instance # Events[b].instance
            /\ Events[b2].instance = Events[st].instance
            /\ Events[b2].name = Events[b].name
            /\ Events[b2].method = Events[b].method

=============================================================================
